---- MODULE Spec2Model ----
(***************************************************************************)
(* State-machine model of sak_utiliy.py: fast_scan, PermissionUpdateWorker *)
(* and BackupWorker.  One run of one worker per behaviour; the file system *)
(* the run sees is one of a small set of fixture trees.                    *)
(***************************************************************************)
EXTENDS Integers, Sequences, FiniteSets, TLC

\* ------------------------------------------------------------------ bounds
\* Number of fixture file systems a run may start from.
NumFS == 6
\* Largest explicit max_workers argument given to BackupWorker.
MaxWorkersArg == 2
\* Longest path (in components) fast_scan is followed to.
MaxDepth == 6

\* ------------------------------------------------------------------- paths
\* A path is a sequence of components; an absolute path starts with "/".
\* "NUL" stands for a path value os.path.realpath rejects with an exception.
NoPath == << >>

IsAbs(p) == Len(p) > 0 /\ p[1] = "/"

IsBad(p) == \E i \in 1..Len(p) : p[i] = "NUL"

\* os.path.join(a, b): an absolute second argument discards the first.
Join(a, b) == IF IsAbs(b) THEN b ELSE a \o b

RECURSIVE Norm(_)
\* os.path.normpath, for the "." components that occur here.
Norm(p) ==
    IF p = << >> THEN << >>
    ELSE IF Head(p) = "." THEN Norm(Tail(p))
    ELSE <<Head(p)>> \o Norm(Tail(p))

Dirname(p) == IF Len(p) <= 1 THEN << >> ELSE SubSeq(p, 1, Len(p) - 1)
Basename(p) == IF p = << >> THEN "" ELSE p[Len(p)]

\* ------------------------------------------------------------ file systems
\* Directory 1 is "/", directory 2 is "/s" (the tree the workers are pointed
\* at, and the working directory).  Entry kinds: "dir" a real directory,
\* "file" a regular file, "link" a symlink to a directory, "jn" a directory
\* junction (is_dir(follow_symlinks=False) is true, realpath resolves it),
\* "err" an entry whose classification raises.  unlist: the directories
\* that start without read permission; foreign: the files of another owner,
\* (directory, name), on which os.chmod fails.
Ent(n, k, t, z) == [name |-> n, kind |-> k, tgt |-> t, size |-> z]

\* "/ls" is a symlink to the tree "/s"; "/d" is the backup destination.
RootEnts == <<Ent("s", "dir", 2, 0), Ent("ls", "link", 2, 0), Ent("d", "dir", 9, 0)>>

FSTable ==
    <<
      \* 1: plain tree, two top-level files and one below
      [ents |-> (1 :> RootEnts
                 @@ 2 :> <<Ent("a.txt", "file", 0, 1), Ent("B.TXT", "file", 0, 2),
                           Ent("sub", "dir", 3, 0)>>
                 @@ 3 :> <<Ent("c.log", "file", 0, 1)>>
                 @@ 9 :> << >>),
       canon |-> (1 :> <<"/">> @@ 2 :> <<"/", "s">> @@ 3 :> <<"/", "s", "sub">>
                  @@ 9 :> <<"/", "d">>),
       unlist |-> {}, foreign |-> {}],
      \* 2: junction cycle: /s/sub/j -> /s; c.log belongs to another user
      [ents |-> (1 :> RootEnts
                 @@ 2 :> <<Ent("a.txt", "file", 0, 1), Ent("sub", "dir", 3, 0)>>
                 @@ 3 :> <<Ent("j", "jn", 2, 0), Ent("c.log", "file", 0, 2)>>
                 @@ 9 :> << >>),
       canon |-> (1 :> <<"/">> @@ 2 :> <<"/", "s">> @@ 3 :> <<"/", "s", "sub">>
                  @@ 9 :> <<"/", "d">>),
       unlist |-> {}, foreign |-> {<<3, "c.log">>}],
      \* 3: one subdirectory that cannot be listed
      [ents |-> (1 :> RootEnts
                 @@ 2 :> <<Ent("t", "dir", 4, 0), Ent("a.txt", "file", 0, 1),
                           Ent("sub", "dir", 3, 0)>>
                 @@ 3 :> <<Ent("c.log", "file", 0, 1)>>
                 @@ 4 :> <<Ent("B.TXT", "file", 0, 2)>>
                 @@ 9 :> << >>),
       canon |-> (1 :> <<"/">> @@ 2 :> <<"/", "s">> @@ 3 :> <<"/", "s", "sub">>
                  @@ 4 :> <<"/", "s", "t">> @@ 9 :> <<"/", "d">>),
       unlist |-> {3}, foreign |-> {}],
      \* 4: an empty tree
      [ents |-> (1 :> RootEnts @@ 2 :> << >> @@ 9 :> << >>),
       canon |-> (1 :> <<"/">> @@ 2 :> <<"/", "s">> @@ 9 :> <<"/", "d">>),
       unlist |-> {}, foreign |-> {}],
      \* 5: a symlink to a directory outside the tree ("/d"), an
      \*    unclassifiable entry, a junction to an already listed directory
      [ents |-> (1 :> RootEnts
                 @@ 2 :> <<Ent("l", "link", 9, 0), Ent("e", "err", 0, 0),
                           Ent("sub", "dir", 3, 0), Ent("j", "jn", 3, 0)>>
                 @@ 3 :> <<Ent("a.txt", "file", 0, 1)>>
                 @@ 9 :> << >>),
       canon |-> (1 :> <<"/">> @@ 2 :> <<"/", "s">> @@ 3 :> <<"/", "s", "sub">>
                  @@ 9 :> <<"/", "d">>),
       unlist |-> {}, foreign |-> {}],
      \* 6: the tree itself cannot be listed
      [ents |-> (1 :> RootEnts
                 @@ 2 :> <<Ent("a.txt", "file", 0, 1)>>
                 @@ 9 :> << >>),
       canon |-> (1 :> <<"/">> @@ 2 :> <<"/", "s">> @@ 9 :> <<"/", "d">>),
       unlist |-> {2}, foreign |-> {}],
      \* 7: a junction cycle two levels down
      [ents |-> (1 :> RootEnts
                 @@ 2 :> <<Ent("a.txt", "file", 0, 1), Ent("sub", "dir", 3, 0)>>
                 @@ 3 :> <<Ent("t", "dir", 4, 0)>>
                 @@ 4 :> <<Ent("j", "jn", 3, 0)>>
                 @@ 9 :> << >>),
       canon |-> (1 :> <<"/">> @@ 2 :> <<"/", "s">> @@ 3 :> <<"/", "s", "sub">>
                  @@ 4 :> <<"/", "s", "sub", "t">> @@ 9 :> <<"/", "d">>),
       unlist |-> {}, foreign |-> {}],
      \* 8: three files of one content and two of another, over two directories
      [ents |-> (1 :> RootEnts
                 @@ 2 :> <<Ent("a.txt", "file", 0, 1), Ent("B.TXT", "file", 0, 1),
                           Ent("u.log", "file", 0, 2), Ent("sub", "dir", 3, 0)>>
                 @@ 3 :> <<Ent("c.txt", "file", 0, 1), Ent("v.log", "file", 0, 2)>>
                 @@ 9 :> << >>),
       canon |-> (1 :> <<"/">> @@ 2 :> <<"/", "s">> @@ 3 :> <<"/", "s", "sub">>
                  @@ 9 :> <<"/", "d">>),
       unlist |-> {}, foreign |-> {}]
    >>

FS(i) == FSTable[i]
\* the working directory of the process
CwdPath == <<"/", "s">>

Abs(p) == IF IsAbs(p) THEN p ELSE CwdPath \o p

NoObj == [k |-> "none", d |-> 0, n |-> ""]

\* The entry called n in directory d of file system i, or none.
Lookup(i, d, n) ==
    LET es == FS(i).ents[d]
        hit == {j \in 1..Len(es) : es[j].name = n}
    IN IF hit = {} THEN Ent("", "none", 0, 0) ELSE es[CHOOSE j \in hit : TRUE]

RECURSIVE Walk(_, _, _)
\* Follow the components of p from directory d (symlinks and junctions are
\* followed, as the operating system does for every component).  The entry
\* looked up is bound once (e \in {...}) and passed on as a value.
Walk(i, d, p) ==
    IF p = << >> THEN [k |-> "dir", d |-> d, n |-> ""]
    ELSE IF Head(p) = "." THEN Walk(i, d, Tail(p))
    ELSE CHOOSE o \in
           { CASE e.kind \in {"dir", "jn", "link"} -> Walk(i, e.tgt, Tail(p))
               [] e.kind = "file" /\ Len(p) = 1 -> [k |-> "file", d |-> d, n |-> e.name]
               [] OTHER -> NoObj
             : e \in {Lookup(i, d, Head(p))} } : TRUE

\* What path p names in file system i.
Resolve(i, p) ==
    IF IsBad(p) THEN NoObj
    ELSE IF IsAbs(p) THEN Walk(i, 1, Tail(p))
    ELSE Walk(i, 1, Tail(Abs(p)))

\* os.path.realpath(p): the canonical path of the directory p names; a path
\* that names nothing is only made absolute and normalised.
Realpath(i, p) ==
    LET o == Resolve(i, p)
    IN IF o.k = "dir" THEN FS(i).canon[o.d] ELSE Norm(Abs(p))

\* os.path.getsize(p), 0 standing for the caller's fallback on an exception
GetSize(i, p) ==
    LET o == Resolve(i, p)
    IN IF o.k = "file" THEN Lookup(i, o.d, o.n).size ELSE 0

\* ------------------------------------------------------------------- state
VARIABLES
    op,            \* which worker this behaviour runs: "perm" or "backup"
    fsid,          \* the fixture file system
    stack,         \* fast_scan: stack
    visited,       \* fast_scan: visited
    yields,        \* directory paths the current fast_scan call has yielded
    emitted,       \* signals emitted so far, in emission order
    log,           \* lines written to the log file, in order
    root_paths,    \* PermissionUpdateWorker.root_paths
    platform,      \* "win" or "posix" (sys.platform)
    _cancel,       \* PermissionUpdateWorker._cancel
    ppc,           \* PermissionUpdateWorker.run: position
    rootIdx,       \* index of the root being enumerated or granted
    all_items,     \* run: all_items
    processed,     \* run: processed
    chmods,        \* os.chmod / icacls calls made so far, in order
    seenCancel,    \* number of items processed when cancel() was called, -1 before
    source_dir,    \* BackupWorker.source_dir
    patterns,      \* BackupWorker.patterns
    verify_hash,   \* BackupWorker.verify_hash
    max_workers,   \* BackupWorker.max_workers
    cancelled,     \* BackupWorker.cancelled
    bpc,           \* BackupWorker.run: position
    plan,          \* run: plan
    total_size,    \* run: total_size
    files_copied,  \* BackupWorker.files_copied
    copied_size,   \* BackupWorker.copied_size
    errors,        \* run: errors
    tpc,           \* per planned task: position of its copy_one call
    tloc,          \* per planned task: copy_one's files_processed, copied_size
    outcome,       \* per planned task: what copy_one returned, "none" before
    collected,     \* tasks whose future the as_completed loop has taken
    damaged,       \* tasks whose destination file differs from its source
    cancelInfo,    \* where the run was when cancel() was called
    mode,          \* the permission bits of every directory and file
    runNo,         \* 1 for the first PermissionUpdateWorker, 2 for the one after it
    made,          \* directories os.makedirs has created, as normalised paths
    firstRun,      \* how the first PermissionUpdateWorker ended: its result, and mode
    directory,     \* find_duplicates: directory
    min_size,      \* find_duplicates: min_size
    file_extensions, \* find_duplicates: file_extensions, << >> for None
    hashes,        \* find_duplicates: hashes
    duplicates,    \* find_duplicates: duplicates
    dirpath,       \* find_duplicates: dirpath of the tuple the outer loop holds
    dfiles,        \* find_duplicates: the filenames the inner loop has still to take
    dpc,           \* find_duplicates: position
    hashed,        \* what chunked_file_hash gave for each filepath it was called on
    result,         \* what find_duplicates returned
    backup_location,  \* MainWindow.backup_location, << >> for ""
    resolved_sources, \* MainWindow.resolved_sources: button name -> paths
    request,       \* the button name of the last trigger_backup call
    reqNo,         \* trigger_backup calls so far
    _backup_queue, \* MainWindow._backup_queue
    _pending_permission_update, \* MainWindow._pending_permission_update
    perm_worker,   \* MainWindow.perm_worker, << >> before the first
    perm_dialog,   \* MainWindow.perm_dialog: "none", "shown" or "closed"
    worker,        \* MainWindow.worker, << >> before the first
    progress_dialog, \* MainWindow.progress_dialog: "none", "shown" or "closed"
    inbox,         \* finished signals queued for the main thread, in order
    history        \* worker starts and terminal results of the request, in order

scanVars == <<stack, visited, yields>>
permVars == <<root_paths, platform, _cancel, ppc, rootIdx, all_items, processed,
              chmods, seenCancel>>
backupVars == <<source_dir, patterns, verify_hash, max_workers, cancelled, bpc, plan,
                total_size, files_copied, copied_size, errors, tpc, tloc, outcome,
                collected, damaged, cancelInfo>>
againVars == <<runNo, firstRun>>
dedupeVars == <<directory, min_size, file_extensions, hashes, duplicates, dirpath,
                dfiles, dpc, hashed, result>>
guiVars == <<backup_location, resolved_sources, request, reqNo, _backup_queue,
             _pending_permission_update, perm_worker, perm_dialog, worker,
             progress_dialog, inbox, history>>
\* everything the workers and find_duplicates own
workerVars == <<op, fsid, scanVars, emitted, log, permVars, backupVars, mode,
                againVars, made, dedupeVars>>
vars == <<op, fsid, scanVars, emitted, log, permVars, backupVars, mode, againVars,
          made, dedupeVars, guiVars>>

\* Signals.  Progress carries (n, total, path); finished carries (n, ok, msg).
\* PermissionUpdateWorker.progress (line 113)
\* Progress with the number of items still to go in place of the count.
ProgressRemaining(n, total, path) ==
    [sig |-> "progress", n |-> total - n, total |-> total, ok |-> TRUE, msg |-> "",
     path |-> path, size |-> 0]
Progress(n, total, path) ==
    [sig |-> "progress", n |-> n, total |-> total, ok |-> TRUE, msg |-> "",
     path |-> path, size |-> 0]
\* BackupWorker.progress_update (line 195); total is copied_size, path the
\* file's base name; the speed argument depends on the clock and is left out
ProgressUpdate(n, file, fsize, copied) ==
    [sig |-> "progress", n |-> n, total |-> copied, ok |-> TRUE, msg |-> "",
     path |-> <<file>>, size |-> fsize]
\* finished (lines 114 and 196)
Finished(n, ok, msg) ==
    [sig |-> "finished", n |-> n, total |-> 0, ok |-> ok, msg |-> msg,
     path |-> NoPath, size |-> 0]

\* --------------------------------------------------------------- fast_scan
ScanPath == stack[Len(stack)]
ScanRest == SubSeq(stack, 1, Len(stack) - 1)

\* line 87: the canonical path was already visited in this call
SeenNever(real) == FALSE
Seen(real) == real \in visited

\* Permission bits, by what they allow: a directory "777" or "755" can be
\* listed and searched, "r--" listed only, "000" neither; a file is "666" or
\* "644".  The key of a directory d is <<d, "">>, of a file <<d, name>>.
Readable(m) == m \in {"777", "755", "r--"}
Traversable(m) == m \in {"777", "755"}
ModeKey(o) == <<o.d, o.n>>
Objects(i) ==
    {<<d, "">> : d \in DOMAIN FS(i).ents}
    \cup {<<de[1], FS(i).ents[de[1]][de[2]].name>> :
             de \in {x \in (DOMAIN FS(i).ents) \X (1..4) :
                       /\ x[2] <= Len(FS(i).ents[x[1]])
                       /\ FS(i).ents[x[1]][x[2]].kind = "file"}}
\* The bits a run finds: a directory of unlist cannot be read; with sel =
\* "r--" the directory "/s" can be listed and not searched.
InitMode(i, sel) ==
    [key \in Objects(i) |->
        IF key[2] # "" THEN "644"
        ELSE IF key[1] \in FS(i).unlist THEN "000"
        ELSE IF sel = "r--" /\ key[1] = 2 THEN "r--"
        ELSE "755"]

RECURSIVE Searchable(_, _, _)
\* every directory in which a component of p is looked up can be searched
Searchable(i, d, p) ==
    IF p = << >> THEN TRUE
    ELSE IF Head(p) = "." THEN Searchable(i, d, Tail(p))
    ELSE /\ Traversable(mode[<<d, "">>])
         /\ \E e \in {Lookup(i, d, Head(p))} :
                e.kind \in {"dir", "jn", "link"} => Searchable(i, e.tgt, Tail(p))
\* the process may reach what path names
Accessible(i, path) == ~IsBad(path) /\ Searchable(i, 1, Tail(Abs(path)))

\* os.scandir(path) succeeds: path names a directory that can be listed
Listable(i, path) ==
    LET o == Resolve(i, path)
    IN o.k = "dir" /\ Readable(mode[ModeKey(o)]) /\ Accessible(i, path)

\* os.path.isdir(p): false too when p cannot be reached
IsDir(i, p) == Resolve(i, p).k = "dir" /\ Accessible(i, p)

\* entry.path of the entries of es whose kind is in kinds, in listing order
EntryPaths(path, es, kinds) ==
    LET OfKind(e) == e.kind \in kinds
        sel == SelectSeq(es, OfKind)
    IN [n \in 1..Len(sel) |-> Join(path, <<sel[n].name>>)]

\* entries with is_dir(follow_symlinks=False): real directories and junctions
ScanDirs(i, path) ==
    EntryPaths(path, FS(i).ents[Resolve(i, path).d], {"dir", "jn"})

\* every other entry that classifies: files and symlinks
ScanFiles(i, path) ==
    EntryPaths(path, FS(i).ents[Resolve(i, path).d], {"file", "link"})

\* the popped path is yielded by this iteration
ScanYields ==
    /\ ~Seen(Realpath(fsid, ScanPath))
    /\ Listable(fsid, ScanPath)

\* A fresh call fast_scan(base): lines 82-83.
ScanStartKeepVisited(base) ==
    /\ stack' = <<base>>
    /\ UNCHANGED visited
    /\ yields' = << >>
ScanStart(base) ==
    /\ stack' = <<base>>
    /\ visited' = {}
    /\ yields' = << >>

\* FastScanStep with a listing failure that ends the traversal instead of
\* skipping the directory.
FastScanStepAbort ==
    /\ stack # << >>
    /\ ~IsBad(ScanPath)
    /\ Len(ScanPath) <= MaxDepth
    /\ LET path == ScanPath
           real == Realpath(fsid, path)
       IN IF Seen(real)
          THEN stack' = ScanRest /\ UNCHANGED <<visited, yields>>
          ELSE /\ visited' = visited \cup {real}
               /\ IF Listable(fsid, path)
                  THEN /\ yields' = Append(yields, path)
                       /\ stack' = ScanRest \o ScanDirs(fsid, path)
                  ELSE /\ stack' = << >>
                       /\ UNCHANGED yields

\* One iteration of the while loop (lines 84-106) for a path realpath accepts.
FastScanStep ==
    /\ stack # << >>
    /\ ~IsBad(ScanPath)
    /\ Len(ScanPath) <= MaxDepth
    /\ LET path == ScanPath
           real == Realpath(fsid, path)
       IN IF Seen(real)
          THEN stack' = ScanRest /\ UNCHANGED <<visited, yields>>
          ELSE /\ visited' = visited \cup {real}
               /\ IF Listable(fsid, path)
                  THEN /\ yields' = Append(yields, path)
                       /\ stack' = ScanRest \o ScanDirs(fsid, path)
                  ELSE /\ stack' = ScanRest
                       /\ UNCHANGED yields

\* --------------------------------------------------- PermissionUpdateWorker
\* The BackupWorker fields of a behaviour that runs no BackupWorker.
BackupIdle ==
    /\ source_dir = NoPath /\ patterns = << >> /\ verify_hash = FALSE
    /\ max_workers = 0 /\ cancelled = FALSE /\ bpc = "none" /\ plan = << >>
    /\ total_size = 0 /\ files_copied = 0 /\ copied_size = 0 /\ errors = 0
    /\ tpc = << >> /\ tloc = << >> /\ outcome = << >> /\ collected = {}
    /\ damaged = {} /\ cancelInfo = << >>

\* The find_duplicates variables of a behaviour that does not call it.
DedupeIdle ==
    /\ directory = NoPath /\ min_size = 0 /\ file_extensions = << >>
    /\ hashes = << >> /\ duplicates = << >> /\ dirpath = NoPath /\ dfiles = << >>
    /\ dpc = "none" /\ hashed = << >> /\ result = << >>

\* no main window
GuiIdle ==
    /\ backup_location = << >> /\ resolved_sources = << >> /\ request = ""
    /\ reqNo = 0 /\ _backup_queue = << >> /\ _pending_permission_update = << >>
    /\ perm_worker = << >> /\ perm_dialog = "none" /\ worker = << >>
    /\ progress_dialog = "none" /\ inbox = << >> /\ history = << >>

PermRoots ==
    { <<<<"/", "s">>>>,
      <<<<".">>>>,
      <<<<"/", "ls">>>>,
      <<<<"/", "s">>, <<"/", "s", "sub">>>>,
      <<<<"/", "x">>>>,
      <<<<"/", "s">>, <<"NUL">>>> }

\* The permission bits a run may find: as the fixture has them, or with a
\* tree that can be listed and not searched.
ModeInits == {"asis", "r--"}

InitPerm ==
    /\ op = "perm"
    /\ fsid \in 1..NumFS
    /\ root_paths \in PermRoots
    /\ platform \in {"win", "posix"}
    /\ _cancel = FALSE
    /\ ppc = "start"
    /\ rootIdx = 0
    /\ all_items = << >>
    /\ processed = 0
    /\ chmods = << >>
    /\ seenCancel = -1
    /\ stack = << >> /\ visited = {} /\ yields = << >>
    /\ emitted = << >> /\ log = << >>
    /\ \E sel \in ModeInits : mode = InitMode(fsid, sel)
    /\ runNo = 1 /\ firstRun = << >> /\ made = {}
    /\ BackupIdle
    /\ DedupeIdle
    /\ GuiIdle

\* cancel(): lines 122-123
PermCancel ==
    /\ op = "perm" /\ ppc # "done" /\ ~_cancel
    /\ _cancel' = TRUE
    /\ seenCancel' = processed
    /\ UNCHANGED backupVars
    /\ UNCHANGED <<guiVars, op, fsid, scanVars, emitted, log, root_paths, platform, ppc,
                   rootIdx, all_items, processed, chmods>>
    /\ UNCHANGED <<mode, againVars, made, dedupeVars>>

\* line 154: the for loop over root_paths takes the next base, or ends
PermNextRoot ==
    /\ op = "perm" /\ ppc \in {"start", "enum"} /\ stack = << >>
    /\ IF rootIdx < Len(root_paths)
       THEN /\ rootIdx' = rootIdx + 1
            /\ ScanStart(root_paths[rootIdx + 1])
            /\ ppc' = "enum"
       ELSE /\ rootIdx' = 0
            /\ ppc' = IF platform = "win" THEN "grant" ELSE "items"
            /\ UNCHANGED scanVars
    /\ UNCHANGED backupVars
    /\ UNCHANGED <<guiVars, op, fsid, emitted, log, root_paths, platform, _cancel,
                   all_items, processed, chmods, seenCancel>>
    /\ UNCHANGED <<mode, againVars, made, dedupeVars>>

\* lines 155-157: one iteration of fast_scan and, on a yield, the loop body
PermEnumStep ==
    /\ op = "perm" /\ ppc = "enum"
    /\ FastScanStep
    /\ all_items' = IF ScanYields
                     THEN all_items \o <<ScanPath>> \o ScanFiles(fsid, ScanPath)
                     ELSE all_items
    /\ UNCHANGED backupVars
    /\ UNCHANGED <<guiVars, op, fsid, emitted, log, root_paths, platform, _cancel, ppc,
                   rootIdx, processed, chmods, seenCancel>>
    /\ UNCHANGED <<mode, againVars, made, dedupeVars>>

\* line 86 raises for the popped path; lines 186-188 catch it
PermFatal ==
    /\ op = "perm" /\ ppc = "enum"
    /\ stack # << >> /\ IsBad(ScanPath)
    /\ log' = Append(log, <<"PERM FATAL">>)
    /\ emitted' = Append(emitted, Finished(0, FALSE, "failed"))
    /\ ppc' = "done"
    /\ UNCHANGED backupVars
    /\ UNCHANGED <<guiVars, op, fsid, scanVars, root_paths, platform, _cancel, rootIdx,
                   all_items, processed, chmods, seenCancel>>
    /\ UNCHANGED <<mode, againVars, made, dedupeVars>>

\* What subprocess.run(["icacls", base, ...]) can come to (lines 141-144):
\* "ok", "exit" (icacls ends with an exit status other than 0, which for a
\* base that names nothing it always does) or "raise" (the process cannot be
\* started).
GrantResults(base) ==
    {"raise"} \cup (IF Resolve(fsid, base).k = "none" THEN {"exit"} ELSE {"ok"})

\* the line _set_perms_windows writes: line 145, or line 148 for an exception
GrantLog(base, r) ==
    IF r = "raise" THEN <<"PERM ERROR (icacls)", base>>
    ELSE <<"PERM WINDOWS ROOT-GRANT", base>>

\* lines 164-165 and 133-148: the grant on the next declared root
PermGrant ==
    /\ op = "perm" /\ ppc = "grant"
    /\ IF rootIdx < Len(root_paths)
       THEN /\ rootIdx' = rootIdx + 1
            /\ \E base \in {root_paths[rootIdx + 1]} : \E r \in GrantResults(base) :
                  /\ chmods' = Append(chmods, [path |-> base, mode |-> "grant", res |-> r])
                  /\ log' = Append(log, GrantLog(base, r))
            /\ UNCHANGED ppc
       ELSE /\ ppc' = "items"
            /\ UNCHANGED <<rootIdx, chmods, log>>
    /\ UNCHANGED backupVars
    /\ UNCHANGED <<guiVars, op, fsid, scanVars, emitted, root_paths, platform, _cancel,
                   all_items, processed, seenCancel>>
    /\ UNCHANGED <<mode, againVars, made, dedupeVars>>

\* _set_perms_posix (lines 125-131): the mode for a directory or a file
ModeFor(is_dir) == IF is_dir THEN "777" ELSE "666"

\* os.chmod(path, ...) at line 129 succeeds: path names something the process
\* can reach (the call follows symbolic links)
ChmodOk(path) ==
    /\ Resolve(fsid, path).k # "none"
    /\ Accessible(fsid, path)
    /\ ModeKey(Resolve(fsid, path)) \notin FS(fsid).foreign
\* _set_perms_posix(path, is_dir): the bits after the call, and its log line
AfterChmod(path, is_dir) ==
    IF ChmodOk(path)
    THEN [mode EXCEPT ![ModeKey(Resolve(fsid, path))] = ModeFor(is_dir)]
    ELSE mode
\* ChmodLog with a failure that leaves no line.
ChmodLogNothing(path) == log
ChmodLog(path) ==
    IF ChmodOk(path) THEN log ELSE Append(log, <<"PERM ERROR (chmod)", path>>)

\* lines 167-173 and 177-183: one iteration of the loop over all_items
PermItemNoCheck ==
    /\ op = "perm" /\ ppc = "items" /\ processed < Len(all_items)
    /\ LET path == all_items[processed + 1]
       IN /\ chmods' = IF platform = "win" THEN chmods
                        ELSE Append(chmods, [path |-> path,
                                             mode |-> ModeFor(IsDir(fsid, path))])
          /\ mode' = IF platform = "win" THEN mode
                      ELSE AfterChmod(path, IsDir(fsid, path))
          /\ log' = IF platform = "win" THEN log ELSE ChmodLog(path)
          /\ processed' = processed + 1
          /\ emitted' = Append(emitted, Progress(processed + 1, Len(all_items), path))
          /\ UNCHANGED ppc
    /\ UNCHANGED backupVars
    /\ UNCHANGED <<guiVars, op, fsid, scanVars, root_paths, platform, _cancel, rootIdx,
                   all_items, seenCancel>>
    /\ UNCHANGED <<againVars, made, dedupeVars>>
PermItem ==
    /\ op = "perm" /\ ppc = "items" /\ processed < Len(all_items)
    /\ LET path == all_items[processed + 1]
       IN IF _cancel
          THEN /\ emitted' = Append(emitted, Finished(0, FALSE, "cancelled"))
               /\ ppc' = "done"
               /\ UNCHANGED <<chmods, processed, log, mode>>
          ELSE /\ chmods' = IF platform = "win" THEN chmods
                             ELSE Append(chmods, [path |-> path,
                                                  mode |-> ModeFor(IsDir(fsid, path))])
               /\ mode' = IF platform = "win" THEN mode
                           ELSE AfterChmod(path, IsDir(fsid, path))
               /\ log' = IF platform = "win" THEN log ELSE ChmodLog(path)
               /\ processed' = processed + 1
               /\ emitted' = Append(emitted, Progress(processed + 1, Len(all_items), path))
               /\ UNCHANGED ppc
    /\ UNCHANGED backupVars
    /\ UNCHANGED <<guiVars, op, fsid, scanVars, root_paths, platform, _cancel, rootIdx,
                   all_items, seenCancel>>
    /\ UNCHANGED <<againVars, made, dedupeVars>>

\* line 185: the loop is over
PermFinish ==
    /\ op = "perm" /\ ppc = "items" /\ processed = Len(all_items)
    /\ emitted' = Append(emitted, Finished(0, TRUE, "updated"))
    /\ ppc' = "done"
    /\ UNCHANGED backupVars
    /\ UNCHANGED <<guiVars, op, fsid, scanVars, log, root_paths, platform, _cancel, rootIdx,
                   all_items, processed, chmods, seenCancel>>
    /\ UNCHANGED <<mode, againVars, made, dedupeVars>>

\* the last signal emitted: the terminal result of a run that has ended
Terminal == emitted[Len(emitted)]

\* The caller runs a second PermissionUpdateWorker on the same roots once
\* the first has ended (lines 116-120 again, on the file system as it is now).
PermAgain ==
    /\ op = "perm" /\ ppc = "done" /\ runNo = 1
    /\ runNo' = 2
    /\ firstRun' = <<[ok |-> Terminal.ok, mode |-> mode]>>
    /\ _cancel' = FALSE
    /\ ppc' = "start"
    /\ rootIdx' = 0
    /\ all_items' = << >>
    /\ processed' = 0
    /\ chmods' = << >>
    /\ seenCancel' = -1
    /\ stack' = << >> /\ visited' = {} /\ yields' = << >>
    /\ emitted' = << >> /\ log' = << >>
    /\ UNCHANGED backupVars
    /\ UNCHANGED <<guiVars, op, fsid, root_paths, platform, mode, made, dedupeVars>>

PermRun ==
    \/ PermNextRoot
    \/ PermEnumStep
    \/ PermFatal
    \/ PermGrant
    \/ PermItem
    \/ PermFinish


\* ------------------------------------------------------------- BackupWorker
\* The characters of the names and patterns that occur in the fixtures.
Chars(s) ==
    CASE s = "a.txt" -> <<"a", ".", "t", "x", "t">>
      [] s = "B.TXT" -> <<"B", ".", "T", "X", "T">>
      [] s = "c.log" -> <<"c", ".", "l", "o", "g">>
      [] s = "sub" -> <<"s", "u", "b">>
      [] s = "c.txt" -> <<"c", ".", "t", "x", "t">>
      [] s = "u.log" -> <<"u", ".", "l", "o", "g">>
      [] s = "v.log" -> <<"v", ".", "l", "o", "g">>
      [] s = ".txt" -> <<".", "t", "x", "t">>
      [] s = ".log" -> <<".", "l", "o", "g">>
      [] s = "*.txt" -> <<"*", ".", "t", "x", "t">>
      [] s = "*.LOG" -> <<"*", ".", "L", "O", "G">>
      [] OTHER -> <<s>>

RECURSIVE JoinChars(_)
JoinChars(p) ==
    IF p = << >> THEN << >>
    ELSE IF Len(p) = 1 THEN Chars(p[1])
    ELSE Chars(Head(p)) \o <<"/">> \o JoinChars(Tail(p))

\* The string a path is, character by character.
PathStr(p) == IF IsAbs(p) THEN <<"/">> \o JoinChars(Tail(p)) ELSE JoinChars(p)

LowerCh(c) ==
    CASE c = "B" -> "b" [] c = "T" -> "t" [] c = "X" -> "x"
      [] c = "L" -> "l" [] c = "O" -> "o" [] c = "G" -> "g"
      [] OTHER -> c

\* str.lower()
Lower(cs) == [k \in 1..Len(cs) |-> LowerCh(cs[k])]

RECURSIVE LStrip(_)
\* str.lstrip("*")
LStrip(cs) == IF cs # << >> /\ Head(cs) = "*" THEN LStrip(Tail(cs)) ELSE cs

\* str.endswith
EndsWith(a, b) == Len(b) <= Len(a) /\ SubSeq(a, Len(a) - Len(b) + 1, Len(a)) = b

\* Matches with the case of fname left as it is.
MatchesCaseSensitive(fname, pats) ==
    \E low \in {PathStr(fname)} :
        \E k \in 1..Len(pats) :
            \/ EndsWith(low, Lower(LStrip(Chars(pats[k]))))
            \/ pats[k] = "*"

\* line 235: fname passes the include patterns
Matches(fname, pats) ==
    \E low \in {Lower(PathStr(fname))} :
        \E k \in 1..Len(pats) :
            \/ EndsWith(low, Lower(LStrip(Chars(pats[k]))))
            \/ pats[k] = "*"

RECURSIVE CommonPrefix(_, _)
CommonPrefix(a, b) ==
    IF a = << >> \/ b = << >> \/ Head(a) # Head(b) THEN 0
    ELSE 1 + CommonPrefix(Tail(a), Tail(b))

\* os.path.relpath(p, start)
Relpath(p, start) ==
    LET a == Norm(Abs(p))
        b == Norm(Abs(start))
        c == CommonPrefix(a, b)
        r == [k \in 1..(Len(b) - c) |-> ".."] \o SubSeq(a, c + 1, Len(a))
    IN IF r = << >> THEN <<".">> ELSE r

destination_root == <<"/", "d">>

\* line 228: the folder under destination_root that mirrors root
DstFolder(sdir, root) == Join(destination_root, Relpath(root, sdir))

\* os.makedirs(p, exist_ok=True), lines 230 and 261: the directories it
\* creates are p and the ancestors of p that do not exist (the destination
\* root can be written to)
MissingDirs(p) ==
    UNION { {pre \in {SubSeq(n, 1, k) : k \in 1..Len(n)} : Resolve(fsid, pre).k = "none"}
            : n \in {Norm(Abs(p))} }

\* lines 237-243: the task planned for one entry of files (src and
\* dst_folder are bound once, as the locals of the loop are)
TaskFor(i, sdir, root, fname) ==
    CHOOSE task \in {[src |-> src, dst |-> Join(dst_folder, fname), fsize |-> GetSize(i, src)] :
                         src \in {Join(root, fname)}, dst_folder \in {DstFolder(sdir, root)}} : TRUE

\* lines 234-245: the tasks planned for the files of one yielded directory
PlanFiles(i, sdir, pats, root, files) ==
    LET Included(fname) == Matches(fname, pats)
    IN CHOOSE tasks \in {[n \in 1..Len(sel) |-> TaskFor(i, sdir, root, sel[n])] :
                             sel \in {SelectSeq(files, Included)}} : TRUE

RECURSIVE SumSizes(_)
SumSizes(tasks) == IF tasks = << >> THEN 0 ELSE Head(tasks).fsize + SumSizes(Tail(tasks))

Min(a, b) == IF a < b THEN a ELSE b
Max(a, b) == IF a > b THEN a ELSE b

\* os.cpu_count() of the machine the run is on
CpuCount == 1

\* line 211
EffectiveWorkers(arg) == IF arg # 0 THEN arg ELSE Max(2, Min(8, CpuCount * 2))

SourceDirs == { <<".">>, <<"/", "s">>, <<"/", "ls">>, <<"NUL">> }
PatternLists == { <<"*">>, <<"*.txt">>, <<"*.LOG">>, << >> }

\* The PermissionUpdateWorker fields of a behaviour that runs none.
PermIdle ==
    /\ root_paths = << >> /\ platform = "posix" /\ _cancel = FALSE /\ ppc = "none"
    /\ rootIdx = 0 /\ all_items = << >> /\ processed = 0 /\ chmods = << >>
    /\ seenCancel = -1

\* __init__: lines 198-212
InitBackup ==
    /\ op = "backup"
    /\ fsid \in 1..NumFS
    /\ source_dir \in SourceDirs
    /\ patterns \in PatternLists
    /\ verify_hash \in BOOLEAN
    /\ \E arg \in {-1, 0} \cup 1..MaxWorkersArg : max_workers = EffectiveWorkers(arg)
    /\ cancelled = FALSE
    /\ files_copied = 0 /\ total_size = 0 /\ copied_size = 0
    /\ bpc = "start" /\ plan = << >> /\ errors = 0
    /\ tpc = << >> /\ tloc = << >> /\ outcome = << >> /\ collected = {}
    /\ damaged = {} /\ cancelInfo = << >>
    /\ stack = << >> /\ visited = {} /\ yields = << >>
    /\ emitted = << >> /\ log = << >>
    /\ mode = InitMode(fsid, "asis")
    /\ runNo = 1 /\ firstRun = << >> /\ made = {}
    /\ PermIdle
    /\ DedupeIdle
    /\ GuiIdle

Tasks == 1..Len(plan)
Running(t) == tpc[t] \in {"copy", "lock", "emit"}
OkTasks == {t \in DOMAIN outcome : outcome[t] = "ok"}

\* cancel(): lines 214-215
BackupCancel ==
    /\ op = "backup" /\ bpc # "done" /\ ~cancelled
    /\ cancelled' = TRUE
    /\ cancelInfo' = <<[at |-> bpc, k |-> Cardinality(OkTasks)]>>
    /\ UNCHANGED <<guiVars, op, fsid, scanVars, emitted, log, permVars>>
    /\ UNCHANGED <<source_dir, patterns, verify_hash, max_workers, bpc, plan, total_size,
                   files_copied, copied_size, errors, tpc, tloc, outcome, collected,
                   damaged>>
    /\ UNCHANGED <<mode, againVars, made, dedupeVars>>

\* lines 219-226: the START line and the call fast_scan(self.source_dir)
BackupStart ==
    /\ op = "backup" /\ bpc = "start"
    /\ log' = Append(log, <<"START Backup">>)
    /\ ScanStart(source_dir)
    /\ bpc' = "plan"
    /\ UNCHANGED <<guiVars, op, fsid, emitted, permVars>>
    /\ UNCHANGED <<source_dir, patterns, verify_hash, max_workers, cancelled, plan,
                   total_size, files_copied, copied_size, errors, tpc, tloc, outcome,
                   collected, damaged, cancelInfo>>
    /\ UNCHANGED <<mode, againVars, made, dedupeVars>>

\* lines 226-245: one iteration of fast_scan and, on a yield, the loop body
BackupPlanStep ==
    /\ op = "backup" /\ bpc = "plan"
    /\ FastScanStep
    /\ \E y \in {ScanYields} :
         /\ \E files \in {IF y THEN ScanFiles(fsid, ScanPath) ELSE << >>} :
               \E tasks \in {PlanFiles(fsid, source_dir, patterns, ScanPath, files)} :
                  plan' = plan \o tasks
         /\ \E dst_folder \in {DstFolder(source_dir, ScanPath)} :
               \E dirs \in {IF y THEN MissingDirs(dst_folder) ELSE {}} :
                  made' = made \cup dirs
    /\ UNCHANGED <<guiVars, op, fsid, emitted, log, permVars>>
    /\ UNCHANGED <<source_dir, patterns, verify_hash, max_workers, cancelled, bpc,
                   total_size, files_copied, copied_size, errors, tpc, tloc, outcome,
                   collected, damaged, cancelInfo>>
    /\ UNCHANGED <<mode, againVars, dedupeVars>>

\* Fatal with a handler that logs and emits nothing.
FatalSilent ==
    /\ log' = Append(log, <<"FATAL">>)
    /\ UNCHANGED emitted
    /\ bpc' = "done"

\* an exception reaches the handler of run: lines 300-302
Fatal ==
    /\ log' = Append(log, <<"FATAL">>)
    /\ emitted' = Append(emitted, Finished(files_copied, FALSE, "failed"))
    /\ bpc' = "done"

\* line 86 raises for the popped path
BackupPlanFatal ==
    /\ op = "backup" /\ bpc = "plan"
    /\ stack # << >> /\ IsBad(ScanPath)
    /\ Fatal
    /\ UNCHANGED <<guiVars, op, fsid, scanVars, permVars>>
    /\ UNCHANGED <<source_dir, patterns, verify_hash, max_workers, cancelled, plan,
                   total_size, files_copied, copied_size, errors, tpc, tloc, outcome,
                   collected, damaged, cancelInfo>>
    /\ UNCHANGED <<mode, againVars, made, dedupeVars>>

\* BackupPlanned with a run that goes on to the pool whatever the plan holds.
BackupPlannedNoTest ==
    /\ op = "backup" /\ bpc = "plan" /\ stack = << >>
    /\ total_size' = SumSizes(plan)
    /\ bpc' = "pool"
    /\ UNCHANGED <<log, emitted>>
    /\ UNCHANGED <<guiVars, op, fsid, scanVars, permVars>>
    /\ UNCHANGED <<source_dir, patterns, verify_hash, max_workers, cancelled, plan,
                   files_copied, copied_size, errors, tpc, tloc, outcome, collected,
                   damaged, cancelInfo>>
    /\ UNCHANGED <<mode, againVars, made, dedupeVars>>

\* lines 247-254: the traversal is over; an empty plan ends the run
BackupPlanned ==
    /\ op = "backup" /\ bpc = "plan" /\ stack = << >>
    /\ total_size' = SumSizes(plan)
    /\ IF Len(plan) = 0
       THEN /\ log' = Append(log, <<"No files found">>)
            /\ emitted' = Append(emitted, Finished(0, FALSE, "nofiles"))
            /\ bpc' = "done"
       ELSE /\ bpc' = "pool"
            /\ UNCHANGED <<log, emitted>>
    /\ UNCHANGED <<guiVars, op, fsid, scanVars, permVars>>
    /\ UNCHANGED <<source_dir, patterns, verify_hash, max_workers, cancelled, plan,
                   files_copied, copied_size, errors, tpc, tloc, outcome, collected,
                   damaged, cancelInfo>>
    /\ UNCHANGED <<mode, againVars, made, dedupeVars>>

\* lines 281-283: the pool is made and every task of the plan submitted;
\* ThreadPoolExecutor raises ValueError for max_workers <= 0
BackupSubmit ==
    /\ op = "backup" /\ bpc = "pool"
    /\ IF max_workers <= 0
       THEN /\ Fatal
            /\ UNCHANGED <<tpc, tloc, outcome>>
       ELSE /\ tpc' = [t \in Tasks |-> "queued"]
            /\ tloc' = [t \in Tasks |-> <<0, 0>>]
            /\ outcome' = [t \in Tasks |-> "none"]
            /\ bpc' = "collect"
            /\ UNCHANGED <<log, emitted>>
    /\ UNCHANGED <<guiVars, op, fsid, scanVars, permVars>>
    /\ UNCHANGED <<source_dir, patterns, verify_hash, max_workers, cancelled, plan,
                   total_size, files_copied, copied_size, errors, collected, damaged, cancelInfo>>
    /\ UNCHANGED <<mode, againVars, made, dedupeVars>>

\* A pool thread takes the oldest queued task and copy_one starts: lines 256-259
TaskBegin(t) ==
    /\ op = "backup" /\ t \in DOMAIN tpc /\ tpc[t] = "queued"
    /\ \A u \in 1..(t - 1) : tpc[u] # "queued"
    /\ Cardinality({u \in DOMAIN tpc : Running(u)}) < max_workers
    /\ IF cancelled
       THEN /\ tpc' = [tpc EXCEPT ![t] = "done"]
            /\ outcome' = [outcome EXCEPT ![t] = "cancelled"]
       ELSE /\ tpc' = [tpc EXCEPT ![t] = "copy"]
            /\ UNCHANGED outcome
    /\ UNCHANGED <<guiVars, op, fsid, scanVars, emitted, log, permVars>>
    /\ UNCHANGED <<source_dir, patterns, verify_hash, max_workers, cancelled, bpc, plan,
                   total_size, files_copied, copied_size, errors, tloc, collected,
                   damaged, cancelInfo>>
    /\ UNCHANGED <<mode, againVars, made, dedupeVars>>

\* shutil.copy2(src, dst) can succeed: src names a file, and not the file dst names
CanCopy(task) ==
    /\ Resolve(fsid, task.src).k = "file"
    /\ Norm(Abs(task.src)) # Norm(Abs(task.dst))

\* What the copy and the two digests can come to: "ok", "corrupt" (the copy
\* succeeds and the destination's bytes differ) or "raise" (an exception).
CopyResults(task) == IF CanCopy(task) THEN {"ok", "corrupt", "raise"} ELSE {"raise"}

\* the error kind of the outcome for an exception e: str(e), line 279
IOErrKind == "ioerr"

\* TaskCopy with a digest mismatch reported as the exception path reports.
TaskCopyRaiseOnMismatch(t) ==
    /\ op = "backup" /\ t \in DOMAIN tpc /\ tpc[t] = "copy"
    /\ \E r \in CopyResults(plan[t]) :
        /\ damaged' = IF r = "corrupt" THEN damaged \cup {t} ELSE damaged
        /\ CASE r = "raise" \/ (r = "corrupt" /\ verify_hash) ->
               /\ log' = Append(log, <<"ERROR copying", t>>)
               /\ outcome' = [outcome EXCEPT ![t] = IOErrKind]
               /\ tpc' = [tpc EXCEPT ![t] = "done"]
             [] OTHER ->
               /\ tpc' = [tpc EXCEPT ![t] = "lock"]
               /\ UNCHANGED <<log, outcome>>
    /\ UNCHANGED <<guiVars, op, fsid, scanVars, emitted, permVars>>
    /\ \E dst \in {plan[t].dst} : \E dirs \in {MissingDirs(Dirname(dst))} :
           made' = made \cup dirs
    /\ UNCHANGED <<source_dir, patterns, verify_hash, max_workers, cancelled, bpc, plan,
                   total_size, files_copied, copied_size, errors, tloc, collected,
                   cancelInfo>>
    /\ UNCHANGED <<mode, againVars, dedupeVars>>

\* lines 260-266 and 277-279: the destination's directory is made, then the
\* copy and the verification
TaskCopy(t) ==
    /\ op = "backup" /\ t \in DOMAIN tpc /\ tpc[t] = "copy"
    /\ \E r \in CopyResults(plan[t]) :
        /\ damaged' = IF r = "corrupt" THEN damaged \cup {t} ELSE damaged
        /\ CASE r = "raise" ->
               /\ log' = Append(log, <<"ERROR copying", t>>)
               /\ outcome' = [outcome EXCEPT ![t] = IOErrKind]
               /\ tpc' = [tpc EXCEPT ![t] = "done"]
             [] r = "corrupt" /\ verify_hash ->
               /\ log' = Append(log, <<"HASH MISMATCH", t>>)
               /\ outcome' = [outcome EXCEPT ![t] = "hash mismatch"]
               /\ tpc' = [tpc EXCEPT ![t] = "done"]
             [] OTHER ->
               /\ tpc' = [tpc EXCEPT ![t] = "lock"]
               /\ UNCHANGED <<log, outcome>>
    /\ UNCHANGED <<guiVars, op, fsid, scanVars, emitted, permVars>>
    /\ \E dst \in {plan[t].dst} : \E dirs \in {MissingDirs(Dirname(dst))} :
           made' = made \cup dirs
    /\ UNCHANGED <<source_dir, patterns, verify_hash, max_workers, cancelled, bpc, plan,
                   total_size, files_copied, copied_size, errors, tloc, collected,
                   cancelInfo>>
    /\ UNCHANGED <<mode, againVars, dedupeVars>>

\* TaskCount with a task that gives up when it finds self.cancelled set.
TaskCountUnlessCancelled(t) ==
    /\ op = "backup" /\ t \in DOMAIN tpc /\ tpc[t] = "lock"
    /\ IF cancelled
       THEN /\ outcome' = [outcome EXCEPT ![t] = "cancelled"]
            /\ tpc' = [tpc EXCEPT ![t] = "done"]
            /\ UNCHANGED <<files_copied, copied_size, tloc>>
       ELSE /\ files_copied' = files_copied + 1
            /\ copied_size' = copied_size + plan[t].fsize
            /\ tloc' = [tloc EXCEPT ![t] = <<files_copied + 1, copied_size + plan[t].fsize>>]
            /\ tpc' = [tpc EXCEPT ![t] = "emit"]
            /\ UNCHANGED outcome
    /\ UNCHANGED <<guiVars, op, fsid, scanVars, emitted, log, permVars>>
    /\ UNCHANGED <<source_dir, patterns, verify_hash, max_workers, cancelled, bpc, plan,
                   total_size, errors, collected, damaged, cancelInfo>>
    /\ UNCHANGED <<mode, againVars, made, dedupeVars>>

\* TaskCount with the byte count for the progress event read before the
\* increment.
TaskCountStaleBytes(t) ==
    /\ op = "backup" /\ t \in DOMAIN tpc /\ tpc[t] = "lock"
    /\ files_copied' = files_copied + 1
    /\ copied_size' = copied_size + plan[t].fsize
    /\ tloc' = [tloc EXCEPT ![t] = <<files_copied + 1, copied_size>>]
    /\ tpc' = [tpc EXCEPT ![t] = "emit"]
    /\ UNCHANGED <<guiVars, op, fsid, scanVars, emitted, log, permVars>>
    /\ UNCHANGED <<source_dir, patterns, verify_hash, max_workers, cancelled, bpc, plan,
                   total_size, errors, outcome, collected, damaged, cancelInfo>>
    /\ UNCHANGED <<mode, againVars, made, dedupeVars>>

\* lines 267-271: the block under self._lock
TaskCount(t) ==
    /\ op = "backup" /\ t \in DOMAIN tpc /\ tpc[t] = "lock"
    /\ files_copied' = files_copied + 1
    /\ copied_size' = copied_size + plan[t].fsize
    /\ tloc' = [tloc EXCEPT ![t] = <<files_copied + 1, copied_size + plan[t].fsize>>]
    /\ tpc' = [tpc EXCEPT ![t] = "emit"]
    /\ UNCHANGED <<guiVars, op, fsid, scanVars, emitted, log, permVars>>
    /\ UNCHANGED <<source_dir, patterns, verify_hash, max_workers, cancelled, bpc, plan,
                   total_size, errors, outcome, collected, damaged, cancelInfo>>
    /\ UNCHANGED <<mode, againVars, made, dedupeVars>>

\* lines 272-276: the progress event, the COPIED line, the return
TaskEmit(t) ==
    /\ op = "backup" /\ t \in DOMAIN tpc /\ tpc[t] = "emit"
    /\ emitted' = Append(emitted, ProgressUpdate(tloc[t][1], Basename(plan[t].src),
                                                 plan[t].fsize, tloc[t][2]))
    /\ log' = Append(log, <<"COPIED", t>>)
    /\ outcome' = [outcome EXCEPT ![t] = "ok"]
    /\ tpc' = [tpc EXCEPT ![t] = "done"]
    /\ UNCHANGED <<guiVars, op, fsid, scanVars, permVars>>
    /\ UNCHANGED <<source_dir, patterns, verify_hash, max_workers, cancelled, bpc, plan,
                   total_size, files_copied, copied_size, errors, tloc, collected,
                   damaged, cancelInfo>>
    /\ UNCHANGED <<mode, againVars, made, dedupeVars>>

\* BackupCollect with a future whose result() raises the exception of its
\* copy_one.
BackupCollectRaise(t) ==
    /\ op = "backup" /\ bpc = "collect"
    /\ t \in DOMAIN tpc /\ tpc[t] = "done" /\ t \notin collected
    /\ collected' = collected \cup {t}
    /\ IF outcome[t] = IOErrKind
       THEN Fatal /\ UNCHANGED errors
       ELSE /\ UNCHANGED <<log, emitted>>
            /\ IF cancelled
               THEN /\ bpc' = "join"
                    /\ UNCHANGED errors
               ELSE /\ errors' = IF outcome[t] # "ok" THEN errors + 1 ELSE errors
                    /\ bpc' = IF collected \cup {t} = Tasks THEN "join" ELSE "collect"
    /\ UNCHANGED <<guiVars, op, fsid, scanVars, permVars>>
    /\ UNCHANGED <<source_dir, patterns, verify_hash, max_workers, cancelled, plan,
                   total_size, files_copied, copied_size, tpc, tloc, outcome, damaged,
                   cancelInfo>>
    /\ UNCHANGED <<mode, againVars, made, dedupeVars>>

\* lines 284-289: as_completed hands over a finished future
BackupCollect(t) ==
    /\ op = "backup" /\ bpc = "collect"
    /\ t \in DOMAIN tpc /\ tpc[t] = "done" /\ t \notin collected
    /\ collected' = collected \cup {t}
    /\ IF cancelled
       THEN /\ bpc' = "join"
            /\ UNCHANGED errors
       ELSE /\ errors' = IF outcome[t] # "ok" THEN errors + 1 ELSE errors
            /\ bpc' = IF collected \cup {t} = Tasks THEN "join" ELSE "collect"
    /\ UNCHANGED <<guiVars, op, fsid, scanVars, emitted, log, permVars>>
    /\ UNCHANGED <<source_dir, patterns, verify_hash, max_workers, cancelled, plan,
                   total_size, files_copied, copied_size, tpc, tloc, outcome, damaged,
                   cancelInfo>>
    /\ UNCHANGED <<mode, againVars, made, dedupeVars>>

\* BackupJoin with a pool that is left without waiting for its tasks.
BackupJoinNoWait ==
    /\ op = "backup" /\ bpc = "join"
    /\ bpc' = "final"
    /\ UNCHANGED <<guiVars, op, fsid, scanVars, emitted, log, permVars>>
    /\ UNCHANGED <<source_dir, patterns, verify_hash, max_workers, cancelled, plan,
                   total_size, files_copied, copied_size, errors, tpc, tloc, outcome,
                   collected, damaged, cancelInfo>>
    /\ UNCHANGED <<mode, againVars, made, dedupeVars>>

\* line 282, leaving the with block: the pool is shut down and waited for
BackupJoin ==
    /\ op = "backup" /\ bpc = "join"
    /\ \A t \in DOMAIN tpc : tpc[t] = "done"
    /\ bpc' = "final"
    /\ UNCHANGED <<guiVars, op, fsid, scanVars, emitted, log, permVars>>
    /\ UNCHANGED <<source_dir, patterns, verify_hash, max_workers, cancelled, plan,
                   total_size, files_copied, copied_size, errors, tpc, tloc, outcome,
                   collected, damaged, cancelInfo>>
    /\ UNCHANGED <<mode, againVars, made, dedupeVars>>

\* BackupFinalCheck with a completion step that never tests self.cancelled.
BackupFinalCheckNoTest ==
    /\ op = "backup" /\ bpc = "final"
    /\ log' = Append(log, <<"DONE", files_copied, errors>>)
    /\ bpc' = "emit_done"
    /\ UNCHANGED <<guiVars, op, fsid, scanVars, emitted, permVars>>
    /\ UNCHANGED <<source_dir, patterns, verify_hash, max_workers, cancelled, plan,
                   total_size, files_copied, copied_size, errors, tpc, tloc, outcome,
                   collected, damaged, cancelInfo>>
    /\ UNCHANGED <<mode, againVars, made, dedupeVars>>

\* lines 291-292 and 295-296: the test of self.cancelled and the log line
BackupFinalCheck ==
    /\ op = "backup" /\ bpc = "final"
    /\ IF cancelled
       THEN /\ log' = Append(log, <<"CANCELLED by user">>)
            /\ bpc' = "emit_cancelled"
       ELSE /\ log' = Append(log, <<"DONE", files_copied, errors>>)
            /\ bpc' = "emit_done"
    /\ UNCHANGED <<guiVars, op, fsid, scanVars, emitted, permVars>>
    /\ UNCHANGED <<source_dir, patterns, verify_hash, max_workers, cancelled, plan,
                   total_size, files_copied, copied_size, errors, tpc, tloc, outcome,
                   collected, damaged, cancelInfo>>
    /\ UNCHANGED <<mode, againVars, made, dedupeVars>>

\* BackupFinalEmit with a terminal result that reports the size of the plan.
BackupFinalEmitPlanCount ==
    /\ op = "backup" /\ bpc \in {"emit_cancelled", "emit_done"}
    /\ emitted' = Append(emitted,
                    IF bpc = "emit_cancelled"
                    THEN Finished(Len(plan), FALSE, "cancelled")
                    ELSE Finished(Len(plan), errors = 0,
                                  IF errors = 0 THEN "success" ELSE "summary"))
    /\ bpc' = "done"
    /\ UNCHANGED <<guiVars, op, fsid, scanVars, log, permVars>>
    /\ UNCHANGED <<source_dir, patterns, verify_hash, max_workers, cancelled, plan,
                   total_size, files_copied, copied_size, errors, tpc, tloc, outcome,
                   collected, damaged, cancelInfo>>
    /\ UNCHANGED <<mode, againVars, made, dedupeVars>>

\* lines 293 and 297-298: the terminal result
BackupFinalEmit ==
    /\ op = "backup" /\ bpc \in {"emit_cancelled", "emit_done"}
    /\ emitted' = Append(emitted,
                    IF bpc = "emit_cancelled"
                    THEN Finished(files_copied, FALSE, "cancelled")
                    ELSE Finished(files_copied, errors = 0,
                                  IF errors = 0 THEN "success" ELSE "summary"))
    /\ bpc' = "done"
    /\ UNCHANGED <<guiVars, op, fsid, scanVars, log, permVars>>
    /\ UNCHANGED <<source_dir, patterns, verify_hash, max_workers, cancelled, plan,
                   total_size, files_copied, copied_size, errors, tpc, tloc, outcome,
                   collected, damaged, cancelInfo>>
    /\ UNCHANGED <<mode, againVars, made, dedupeVars>>

BackupRun ==
    \/ BackupStart
    \/ BackupPlanStep
    \/ BackupPlanFatal
    \/ BackupPlanned
    \/ BackupSubmit
    \/ \E t \in DOMAIN tpc : TaskBegin(t)
    \/ \E t \in DOMAIN tpc : TaskCopy(t)
    \/ \E t \in DOMAIN tpc : TaskCount(t)
    \/ \E t \in DOMAIN tpc : TaskEmit(t)
    \/ \E t \in DOMAIN tpc : BackupCollect(t)
    \/ BackupJoin
    \/ BackupFinalCheck
    \/ BackupFinalEmit

\* ---------------------------------------------------------- find_duplicates
\* The files of the fixtures hold nothing but zero bytes, so that the size of
\* a file fixes its content.
Content(i, p) == [k \in 1..GetSize(i, p) |-> 0]
\* hashlib.md5 of a content of zero bytes: one digest for each length
Md5(bytes) == <<"md5", Len(bytes)>>
NoDigest == << >>

\* chunked_file_hash(filepath), lines 69-74: the digest of the content, or the
\* exception of open() or read(); opening a directory always raises.
HashResults(i, filepath) ==
    {[ok |-> FALSE, digest |-> NoDigest]}
    \cup IF Resolve(i, filepath).k = "file"
         THEN {[ok |-> TRUE, digest |-> Md5(Content(i, filepath))]}
         ELSE {}

\* line 1008: filename ends with one of the extensions, or there are none
PassesExt(filename, exts) ==
    \/ exts = << >>
    \/ \E low \in {Lower(PathStr(filename))} :
           \E k \in 1..Len(exts) : EndsWith(low, Chars(exts[k]))

\* line 1010
Filepath(dp, filename) ==
    IF ~IsAbs(filename) THEN Join(dp, <<Basename(filename)>>) ELSE filename

\* Appended with the first path appended whether or not the group holds it.
AppendedAlways(dups, h, fp, first) ==
    LET got == IF h \in DOMAIN dups THEN Append(dups[h], fp) ELSE <<fp>>
    IN (h :> Append(got, first)) @@ dups

\* Appended without the first path.
AppendedNewOnly(dups, h, fp, first) ==
    LET got == IF h \in DOMAIN dups THEN Append(dups[h], fp) ELSE <<fp>>
    IN (h :> got) @@ dups

\* lines 1020-1022: duplicates after a repeat of the digest h by filepath fp,
\* first being hashes[h]
Appended(dups, h, fp, first) ==
    LET got == IF h \in DOMAIN dups THEN Append(dups[h], fp) ELSE <<fp>>
        all == IF \E k \in 1..Len(got) : got[k] = first THEN got ELSE Append(got, first)
    IN (h :> all) @@ dups

Directories == { <<"/", "s">>, <<".">>, <<"/", "ls">>, <<"NUL">> }
MinSizes == {0, 2}
ExtensionLists == { << >>, <<".txt">>, <<".log">> }
\* the fixture with files of equal content
DupFS == 8

\* a call find_duplicates(directory, min_size, file_extensions): line 1003
InitDedupe ==
    /\ op = "dedupe"
    /\ fsid \in (1..NumFS) \cup {DupFS}
    /\ directory \in Directories
    /\ min_size \in MinSizes
    /\ file_extensions \in ExtensionLists
    /\ hashes = << >> /\ duplicates = << >> /\ dirpath = NoPath /\ dfiles = << >>
    /\ dpc = "start" /\ hashed = << >> /\ result = << >>
    /\ stack = << >> /\ visited = {} /\ yields = << >>
    /\ emitted = << >> /\ log = << >>
    /\ mode = InitMode(fsid, "asis")
    /\ runNo = 1 /\ firstRun = << >> /\ made = {}
    /\ PermIdle
    /\ BackupIdle
    /\ GuiIdle

\* lines 1004-1006: the two dicts, and the call of fast_scan
DedupeStart ==
    /\ op = "dedupe" /\ dpc = "start"
    /\ hashes' = << >> /\ duplicates' = << >>
    /\ ScanStart(directory)
    /\ dpc' = "scan"
    /\ UNCHANGED <<guiVars, op, fsid, emitted, log, permVars, backupVars, mode, againVars, made>>
    /\ UNCHANGED <<directory, min_size, file_extensions, dirpath, dfiles, hashed, result>>

\* line 1006: the outer loop takes the next tuple of fast_scan
DedupeScanStep ==
    /\ op = "dedupe" /\ dpc = "scan" /\ dfiles = << >>
    /\ FastScanStep
    /\ IF ScanYields
       THEN dirpath' = ScanPath /\ dfiles' = ScanFiles(fsid, ScanPath)
       ELSE UNCHANGED <<dirpath, dfiles>>
    /\ UNCHANGED <<guiVars, op, fsid, emitted, log, permVars, backupVars, mode, againVars, made>>
    /\ UNCHANGED <<directory, min_size, file_extensions, hashes, duplicates, dpc,
                   hashed, result>>

\* line 86 raises for the popped path; nothing in find_duplicates catches it
DedupeRaise ==
    /\ op = "dedupe" /\ dpc = "scan" /\ dfiles = << >>
    /\ stack # << >> /\ IsBad(ScanPath)
    /\ dpc' = "raised"
    /\ UNCHANGED <<guiVars, op, fsid, scanVars, emitted, log, permVars, backupVars, mode,
                   againVars, made>>
    /\ UNCHANGED <<directory, min_size, file_extensions, hashes, duplicates, dirpath,
                   dfiles, hashed, result>>

\* lines 1007-1024: one iteration of the inner loop
DedupeFile ==
    /\ op = "dedupe" /\ dpc = "scan" /\ dfiles # << >>
    /\ dfiles' = Tail(dfiles)
    /\ \E filename \in {Head(dfiles)} : \E filepath \in {Filepath(dirpath, Head(dfiles))} :
          IF ~PassesExt(filename, file_extensions) \/ GetSize(fsid, filepath) < min_size
          THEN UNCHANGED <<hashes, duplicates, hashed>>
          ELSE \E file_hash \in HashResults(fsid, filepath) :
                 /\ hashed' = (filepath :> file_hash) @@ hashed
                 /\ IF ~file_hash.ok
                    THEN UNCHANGED <<hashes, duplicates>>
                    ELSE IF file_hash.digest \in DOMAIN hashes
                    THEN /\ duplicates' = Appended(duplicates, file_hash.digest, filepath,
                                                   hashes[file_hash.digest])
                         /\ UNCHANGED hashes
                    ELSE /\ hashes' = (file_hash.digest :> filepath) @@ hashes
                         /\ UNCHANGED duplicates
    /\ UNCHANGED <<guiVars, op, fsid, scanVars, emitted, log, permVars, backupVars, mode,
                   againVars, made>>
    /\ UNCHANGED <<directory, min_size, file_extensions, dirpath, dpc, result>>

\* line 1026: fast_scan is exhausted
DedupeReturn ==
    /\ op = "dedupe" /\ dpc = "scan" /\ dfiles = << >> /\ stack = << >>
    /\ result' = [h \in {k \in DOMAIN duplicates : Len(duplicates[k]) > 1} |-> duplicates[h]]
    /\ dpc' = "done"
    /\ UNCHANGED <<guiVars, op, fsid, scanVars, emitted, log, permVars, backupVars, mode,
                   againVars, made>>
    /\ UNCHANGED <<directory, min_size, file_extensions, hashes, duplicates, dirpath,
                   dfiles, hashed>>

DedupeRun ==
    \/ DedupeStart
    \/ DedupeScanStep
    \/ DedupeRaise
    \/ DedupeFile
    \/ DedupeReturn

\* One synchronous call of find_duplicates.
DedupeSpec == InitDedupe /\ [][DedupeRun]_vars

\* ------------------------------------------------------- the backup workflow
\* MainWindow: trigger_backup starts one PermissionUpdateWorker over all the
\* sources of a button and queues one BackupWorker per source.  The handlers
\* run on the main thread, one at a time; a worker's finished signal crosses
\* threads and waits in inbox until the main thread takes it.  A worker's
\* run() is taken here by its one terminal result.
USER_ROOT == <<"/", "Users">>
\* lines 541-549: button name -> (subpath below the user, patterns, dest)
backup_sources ==
    ( "Backup Documents" :> [sub |-> "Documents", patterns |-> <<"*">>,
                              dest |-> "Documents"] )
    @@ ( "Backup Photos" :> [sub |-> "Pictures", patterns |-> <<"*">>,
                              dest |-> "Pictures"] )
Names == DOMAIN backup_sources
\* selected users, in selection order, whose folder exists (lines 703-710)
UserLists == { << >>, <<"a">>, <<"a", "b">>, <<"b", "a", "c">> }
MaxRequests == 2

\* lines 701-710: the paths of button nm for the users us
SourcePaths(nm, us) ==
    [k \in 1..Len(us) |-> Join(USER_ROOT, <<us[k], backup_sources[nm].sub>>)]

\* the main window once the users and, or not, the backup location are chosen
InitGui ==
    /\ op = "gui"
    /\ fsid = 1
    /\ backup_location \in { <<"/", "d">>, << >> }
    /\ \E sel \in [Names -> UserLists] :
          resolved_sources = [nm \in Names |-> SourcePaths(nm, sel[nm])]
    /\ request = "" /\ reqNo = 0
    /\ _backup_queue = << >> /\ _pending_permission_update = << >>
    /\ perm_worker = << >> /\ perm_dialog = "none"
    /\ worker = << >> /\ progress_dialog = "none"
    /\ inbox = << >> /\ history = << >>
    /\ stack = << >> /\ visited = {} /\ yields = << >>
    /\ emitted = << >> /\ log = << >>
    /\ mode = InitMode(fsid, "asis")
    /\ runNo = 1 /\ firstRun = << >> /\ made = {}
    /\ PermIdle
    /\ BackupIdle
    /\ DedupeIdle

\* what history records
Event(ev, src, ok, msg) == [ev |-> ev, source_dir |-> src, ok |-> ok, msg |-> msg]

\* lines 756-763: what the loop appends for the path p
QueueEntry(nm, p) ==
    LET user == Basename(Dirname(p))
        droot == Join(Join(backup_location, <<user>>), <<backup_sources[nm].dest>>)
    IN [source_dir |-> p, patterns |-> backup_sources[nm].patterns,
        destination_root |-> droot,
        log_file |-> Join(droot, <<"backup.log">>)]
PendingEntry(nm, p) == [p |-> p, log_file |-> QueueEntry(nm, p).log_file]

\* start_backup: lines 813-831, given the history so far and the state dlg
\* in which the caller left the progress dialog
start_backup(e, hist, dlg) ==
    IF backup_location = << >> \/ e.source_dir = << >>
    THEN /\ history' = hist
         /\ progress_dialog' = dlg
         /\ UNCHANGED worker
    ELSE /\ progress_dialog' = "shown"
         /\ worker' = <<[source_dir |-> e.source_dir,
                         destination_root |-> e.destination_root,
                         cancelled |-> FALSE, st |-> "running"]>>
         /\ history' = Append(hist, Event("backup_start", e.source_dir, TRUE, ""))

\* _start_next_backup: lines 807-811, on the queue as the caller left it
_start_next_backup(queue, hist, dlg) ==
    IF queue = << >>
    THEN /\ _backup_queue' = queue
         /\ history' = hist
         /\ progress_dialog' = dlg
         /\ UNCHANGED worker
    ELSE /\ _backup_queue' = Tail(queue)
         /\ start_backup(Head(queue), hist, dlg)

\* _start_permission_update: lines 768-786
_start_permission_update(pend, queue, hist) ==
    IF pend = << >>
    THEN /\ _start_next_backup(queue, hist, progress_dialog)
         /\ UNCHANGED <<perm_worker, perm_dialog>>
    ELSE /\ perm_worker' = <<[root_paths |-> [k \in 1..Len(pend) |-> pend[k].p],
                              log_file |-> pend[1].log_file,
                              cancelled |-> FALSE, st |-> "running"]>>
         /\ perm_dialog' = "shown"
         /\ history' = Append(hist, Event("perm_start", NoPath, TRUE, ""))
         /\ _backup_queue' = queue
         /\ UNCHANGED <<worker, progress_dialog>>

\* trigger_backup(name): lines 747-766.  The buttons can be pressed while no
\* application-modal dialog is up.  failAt = k > 0: os.makedirs raises for the
\* k-th path and the handler ends there.
trigger_backup(nm, failAt) ==
    /\ op = "gui" /\ reqNo < MaxRequests
    /\ perm_dialog # "shown" /\ progress_dialog # "shown"
    /\ reqNo' = reqNo + 1
    /\ request' = nm
    /\ \E paths \in {resolved_sources[nm]} :
          /\ failAt <= Len(paths)
          /\ IF paths = << >>
             THEN /\ history' = << >>
                  /\ UNCHANGED <<_backup_queue, _pending_permission_update,
                                 perm_worker, perm_dialog, worker, progress_dialog>>
             ELSE IF failAt > 0
             THEN /\ _backup_queue' = [k \in 1..(failAt - 1) |-> QueueEntry(nm, paths[k])]
                  /\ _pending_permission_update' =
                         [k \in 1..(failAt - 1) |-> PendingEntry(nm, paths[k])]
                  /\ history' = << >>
                  /\ UNCHANGED <<perm_worker, perm_dialog, worker, progress_dialog>>
             ELSE \E queue \in {[k \in 1..Len(paths) |-> QueueEntry(nm, paths[k])]} :
                  \E pend \in {[k \in 1..Len(paths) |-> PendingEntry(nm, paths[k])]} :
                      /\ _pending_permission_update' = pend
                      /\ _start_permission_update(pend, queue, << >>)
    /\ UNCHANGED <<backup_location, resolved_sources, inbox>>
    /\ UNCHANGED workerVars

TriggerBackup == \E nm \in Names : \E failAt \in 0..3 : trigger_backup(nm, failAt)

\* isRunning(): the thread has been started and run() has not returned
IsRunning(w) == w # << >> /\ w[1].st \in {"running", "emitted"}

\* _cancel_permission_update: lines 794-797, the dialog's Cancel button
_cancel_permission_update ==
    /\ op = "gui" /\ perm_dialog = "shown"
    /\ IsRunning(perm_worker) /\ ~perm_worker[1].cancelled
    /\ perm_worker' = <<[perm_worker[1] EXCEPT !.cancelled = TRUE]>>
    /\ UNCHANGED <<backup_location, resolved_sources, request, reqNo, _backup_queue,
                   _pending_permission_update, perm_dialog, worker, progress_dialog,
                   inbox, history>>
    /\ UNCHANGED workerVars

\* cancel_backup: lines 846-849, the dialog's Cancel button
cancel_backup ==
    /\ op = "gui" /\ progress_dialog = "shown"
    /\ IsRunning(worker) /\ ~worker[1].cancelled
    /\ worker' = <<[worker[1] EXCEPT !.cancelled = TRUE]>>
    /\ UNCHANGED <<backup_location, resolved_sources, request, reqNo, _backup_queue,
                   _pending_permission_update, perm_worker, perm_dialog,
                   progress_dialog, inbox, history>>
    /\ UNCHANGED workerVars

\* the terminal results of PermissionUpdateWorker.run (lines 171, 181, 185,
\* 188); the cancelled one needs the flag
PermResults(c) ==
    { [ok |-> TRUE, msg |-> "updated"], [ok |-> FALSE, msg |-> "failed"] }
    \cup (IF c THEN { [ok |-> FALSE, msg |-> "cancelled"] } ELSE {})

\* the terminal results of BackupWorker.run (lines 251, 293, 297, 302)
BackupResults(c) ==
    { [ok |-> TRUE, msg |-> "success"], [ok |-> FALSE, msg |-> "summary"],
      [ok |-> FALSE, msg |-> "nofiles"], [ok |-> FALSE, msg |-> "failed"] }
    \cup (IF c THEN { [ok |-> FALSE, msg |-> "cancelled"] } ELSE {})

\* PermissionUpdateWorker.run emits finished
PermWorkerEmit ==
    /\ op = "gui" /\ perm_worker # << >> /\ perm_worker[1].st = "running"
    /\ \E r \in PermResults(perm_worker[1].cancelled) :
          /\ inbox' = Append(inbox, [sig |-> "perm", ok |-> r.ok, msg |-> r.msg])
          /\ history' = Append(history, Event("perm_result", NoPath, r.ok, r.msg))
    /\ perm_worker' = <<[perm_worker[1] EXCEPT !.st = "emitted"]>>
    /\ UNCHANGED <<backup_location, resolved_sources, request, reqNo, _backup_queue,
                   _pending_permission_update, perm_dialog, worker, progress_dialog>>
    /\ UNCHANGED workerVars

\* BackupWorker.run emits finished
BackupWorkerEmit ==
    /\ op = "gui" /\ worker # << >> /\ worker[1].st = "running"
    /\ \E r \in BackupResults(worker[1].cancelled) :
          /\ inbox' = Append(inbox, [sig |-> "backup", ok |-> r.ok, msg |-> r.msg])
          /\ history' = Append(history,
                               Event("backup_result", worker[1].source_dir, r.ok, r.msg))
    /\ worker' = <<[worker[1] EXCEPT !.st = "emitted"]>>
    /\ UNCHANGED <<backup_location, resolved_sources, request, reqNo, _backup_queue,
                   _pending_permission_update, perm_worker, perm_dialog,
                   progress_dialog>>
    /\ UNCHANGED workerVars

\* run() returns and the thread ends
PermThreadExit ==
    /\ op = "gui" /\ perm_worker # << >> /\ perm_worker[1].st = "emitted"
    /\ perm_worker' = <<[perm_worker[1] EXCEPT !.st = "ended"]>>
    /\ UNCHANGED <<backup_location, resolved_sources, request, reqNo, _backup_queue,
                   _pending_permission_update, perm_dialog, worker, progress_dialog,
                   inbox, history>>
    /\ UNCHANGED workerVars

BackupThreadExit ==
    /\ op = "gui" /\ worker # << >> /\ worker[1].st = "emitted"
    /\ worker' = <<[worker[1] EXCEPT !.st = "ended"]>>
    /\ UNCHANGED <<backup_location, resolved_sources, request, reqNo, _backup_queue,
                   _pending_permission_update, perm_worker, perm_dialog,
                   progress_dialog, inbox, history>>
    /\ UNCHANGED workerVars

\* _permission_update_finished that goes on whatever the result.
_permission_update_finishedAnyResult ==
    /\ op = "gui" /\ inbox # << >> /\ Head(inbox).sig = "perm"
    /\ inbox' = Tail(inbox)
    /\ perm_dialog' = "closed"
    /\ _start_next_backup(_backup_queue, history, progress_dialog)
    /\ UNCHANGED <<backup_location, resolved_sources, request, reqNo,
                   _pending_permission_update, perm_worker>>
    /\ UNCHANGED workerVars
\* _permission_update_finished(success, message): lines 799-805, the slot of
\* the permission worker's finished signal
_permission_update_finished ==
    /\ op = "gui" /\ inbox # << >> /\ Head(inbox).sig = "perm"
    /\ inbox' = Tail(inbox)
    /\ perm_dialog' = "closed"
    /\ IF ~Head(inbox).ok
       THEN /\ _backup_queue' = << >>
            /\ UNCHANGED <<worker, progress_dialog, history>>
       ELSE _start_next_backup(_backup_queue, history, progress_dialog)
    /\ UNCHANGED <<backup_location, resolved_sources, request, reqNo,
                   _pending_permission_update, perm_worker>>
    /\ UNCHANGED workerVars

\* backup_finished that goes on whatever the result.
backup_finishedAnyResult ==
    /\ op = "gui" /\ inbox # << >> /\ Head(inbox).sig = "backup"
    /\ inbox' = Tail(inbox)
    /\ _start_next_backup(_backup_queue, history, "closed")
    /\ UNCHANGED <<backup_location, resolved_sources, request, reqNo,
                   _pending_permission_update, perm_worker, perm_dialog>>
    /\ UNCHANGED workerVars
\* backup_finished(files_copied, success, message): lines 851-858, the slot
\* of the backup worker's finished signal.  The dialog of the ended backup is
\* closed first (line 852); start_backup then puts up the next one.
backup_finished ==
    /\ op = "gui" /\ inbox # << >> /\ Head(inbox).sig = "backup"
    /\ inbox' = Tail(inbox)
    /\ IF Head(inbox).ok
       THEN _start_next_backup(_backup_queue, history, "closed")
       ELSE /\ progress_dialog' = "closed"
            /\ _backup_queue' = << >>
            /\ UNCHANGED <<worker, history>>
    /\ UNCHANGED <<backup_location, resolved_sources, request, reqNo,
                   _pending_permission_update, perm_worker, perm_dialog>>
    /\ UNCHANGED workerVars

GuiNext ==
    \/ TriggerBackup
    \/ _cancel_permission_update
    \/ cancel_backup
    \/ PermWorkerEmit
    \/ PermThreadExit
    \/ BackupWorkerEmit
    \/ BackupThreadExit
    \/ _permission_update_finished
    \/ backup_finished

\* The main window from the first press of a backup button.
GuiSpec == InitGui /\ [][GuiNext]_vars

Init == InitPerm \/ InitBackup

\* The steps of the worker's own threads, and the caller's cancel().
Run == PermRun \/ BackupRun
Cancel == PermCancel \/ BackupCancel
Again == PermAgain
Next == Run \/ Cancel \/ Again

Spec == Init /\ [][Next]_vars

\* The worker's threads are scheduled: a step of the run that stays possible
\* is taken.
FairSpec == Spec /\ WF_vars(Run)

Done == ppc = "done" \/ bpc = "done"

\* ------------------------------------------------------------------ claims
ProgIdx == {i \in 1..Len(emitted) : emitted[i].sig = "progress"}
FinIdx == {i \in 1..Len(emitted) : emitted[i].sig = "finished"}
BackupDone == op = "backup" /\ bpc = "done"
PermDone == op = "perm" /\ ppc = "done"
FailedTasks == {t \in DOMAIN outcome : outcome[t] \notin {"none", "ok"}}
\* tasks that have passed the block under the lock
CountedTasks == {t \in DOMAIN tpc : tpc[t] = "emit" \/ outcome[t] = "ok"}

RECURSIVE SumOver(_, _)
SumOver(f(_), S) ==
    IF S = {} THEN 0
    ELSE LET x == CHOOSE y \in S : TRUE IN f(x) + SumOver(f, S \ {x})

TaskSize(t) == plan[t].fsize

\* C1: in emission order, no progress event of a BackupWorker run reports a
\* files-processed or a bytes-copied value smaller than an earlier event's.
C1_ProgressMonotone ==
    op = "backup" =>
        \A i, j \in ProgIdx :
            i < j => /\ emitted[i].n <= emitted[j].n
                     /\ emitted[i].total <= emitted[j].total

\* two workers copied a.txt and B.TXT of "."; the second to pass the lock
\* emitted its event (2 files, 3 bytes) before the first emitted (1 file, 1 byte)
C1_Witness ==
    /\ op = "backup" /\ fsid = 1 /\ source_dir = <<".">> /\ max_workers = 2
    /\ Len(emitted) >= 2
    /\ emitted[1].sig = "progress" /\ emitted[1].n = 2 /\ emitted[1].total = 3
    /\ emitted[2].sig = "progress" /\ emitted[2].n = 1 /\ emitted[2].total = 1

\* The regular files of the tree "/s" of a fixture, as (directory, entry index).
TreeFiles(i) ==
    {de \in (DOMAIN FS(i).ents \ {1, 9}) \X (1..4) :
        /\ de[2] <= Len(FS(i).ents[de[1]])
        /\ FS(i).ents[de[1]][de[2]].kind = "file"}
FileSizeAt(de) == FS(fsid).ents[de[1]][de[2]].size
\* A tree of regular files and directories only, all of them listable.
PlainTree(i) ==
    /\ FS(i).unlist = {}
    /\ \A d \in DOMAIN FS(i).ents \ {1, 9} : \A k \in 1..Len(FS(i).ents[d]) :
           FS(i).ents[d][k].kind \in {"file", "dir"}
\* The environment failed or corrupted no copy that could have succeeded.
NoFault ==
    /\ damaged = {}
    /\ \A t \in DOMAIN outcome : CanCopy(plan[t]) => outcome[t] = "ok"

\* C2: over a tree of n >= 1 regular files, with "*" among the patterns, verify
\* on, no cancellation and no failure or corruption from the environment, the
\* terminal result is (n, success) and the last progress event reports the sum
\* of the n sizes.
C2_FullCopyResult ==
    ( /\ BackupDone
      /\ PlainTree(fsid) /\ TreeFiles(fsid) # {}
      /\ ~IsBad(source_dir) /\ max_workers > 0
      /\ \E k \in 1..Len(patterns) : patterns[k] = "*"
      /\ verify_hash /\ cancelInfo = << >> /\ NoFault )
    => /\ Terminal.n = Cardinality(TreeFiles(fsid))
       /\ Terminal.ok
       /\ ProgIdx # {}
       /\ LET last == CHOOSE i \in ProgIdx : \A j \in ProgIdx : j <= i
          IN emitted[last].total = SumOver(FileSizeAt, TreeFiles(fsid))

\* the three planned copies of the plain tree "/s" all raised (source and
\* destination are the same file) and the run reported 0 files and failure
C2_Witness ==
    /\ BackupDone /\ fsid = 1 /\ source_dir = <<"/", "s">>
    /\ patterns = <<"*">> /\ verify_hash /\ cancelInfo = << >> /\ NoFault
    /\ Len(plan) = 3 /\ \A t \in DOMAIN outcome : outcome[t] = IOErrKind
    /\ Terminal.n = 0 /\ ~Terminal.ok

\* The run got to its completion step: a non-empty plan and no exception.
Completed == BackupDone /\ Len(plan) > 0 /\ Terminal.msg # "failed"

\* C3 as stated: cancel() at any moment before the terminal result of a run that
\* gets to its completion step, k tasks having succeeded by then, gives a
\* terminal result (filesCopied, failure, cancelled), k <= filesCopied <= n.
C3_CancelAnyTime ==
    (Completed /\ cancelInfo # << >>)
    => /\ ~Terminal.ok
       /\ Terminal.msg = "cancelled"
       /\ cancelInfo[1].k <= Terminal.n
       /\ Terminal.n <= Len(plan)

\* C3 amended: the same for a cancel() that comes before the completion step
\* has tested the flag (line 291).
C3_CancelBeforeFinalCheck ==
    (Completed /\ cancelInfo # << >> /\ cancelInfo[1].at # "emit_done")
    => /\ ~Terminal.ok
       /\ Terminal.msg = "cancelled"
       /\ cancelInfo[1].k <= Terminal.n
       /\ Terminal.n <= Len(plan)

\* one task had succeeded when cancel() came, a second one finished after it
C3_Witness ==
    /\ Completed /\ cancelInfo # << >>
    /\ cancelInfo[1].at = "collect" /\ cancelInfo[1].k = 1
    /\ Terminal.msg = "cancelled" /\ Terminal.n = 2

\* C4: a run emits finished exactly once, as its last signal, and every run
\* gets there.
C4_TerminalOnce ==
    /\ [](/\ Cardinality(FinIdx) <= 1
          /\ FinIdx # {} => FinIdx = {Len(emitted)}
          /\ Done <=> FinIdx # {})
    /\ <>Done

\* a cancelled backup run whose terminal result follows two progress events
C4_Witness ==
    /\ BackupDone /\ cancelled
    /\ Len(emitted) = 3 /\ FinIdx = {3}

\* C5: a fast_scan call that has started comes to its end (the stack empties),
\* unless the run ends first.
C5_ScanTerminates == (stack # << >>) ~> (stack = << >> \/ Done)

\* a traversal of the junction cycle has ended, with both directories yielded
C5_Witness ==
    /\ fsid = 2 /\ op = "perm" /\ ppc = "enum" /\ root_paths = <<<<"/", "ls">>>>
    /\ stack = << >> /\ Len(yields) = 2

\* the root being traversed
ScanBase == IF op = "perm" THEN root_paths[rootIdx] ELSE source_dir
InScan == (op = "perm" /\ ppc = "enum") \/ (op = "backup" /\ bpc = "plan")

\* C6: the directories one fast_scan call yields have pairwise different
\* canonical paths, and a call starts from an empty visited set.
C6_DistinctRealPaths ==
    /\ \A i, j \in 1..Len(yields) :
           i # j => Realpath(fsid, yields[i]) # Realpath(fsid, yields[j])
    /\ (InScan /\ stack = <<ScanBase>>) => visited = {}

\* a second call yields a directory the first call had yielded already
C6_Witness ==
    /\ op = "perm" /\ ppc = "enum" /\ rootIdx = 2
    /\ yields = << <<"/", "s", "sub">> >>
    /\ Cardinality({k \in 1..Len(all_items) : all_items[k] = <<"/", "s", "sub">>}) = 2

\* directories that can be listed
ListableDirs(i) == {d \in DOMAIN FS(i).ents : Readable(mode[<<d, "">>])}
\* directories entered from the directories of S by a directory entry (the
\* directory the entry is in has to be searchable for that)
Children(i, S) ==
    {d \in DOMAIN FS(i).ents :
        \E p \in S : \E k \in 1..Len(FS(i).ents[p]) :
            /\ Traversable(mode[<<p, "">>])
            /\ FS(i).ents[p][k].kind \in {"dir", "jn"}
            /\ FS(i).ents[p][k].tgt = d}
RECURSIVE ReachFrom(_, _)
ReachFrom(i, S) ==
    LET T == S \cup (Children(i, S) \cap ListableDirs(i))
    IN IF T = S THEN S ELSE ReachFrom(i, T)
\* the listable directories reachable from base through directory entries of
\* listable directories
Reachable(i, base) ==
    LET o == Resolve(i, base)
    IN IF o.k = "dir" /\ o.d \in ListableDirs(i) /\ Accessible(i, base)
       THEN ReachFrom(i, {o.d}) ELSE {}

\* C7: a directory that cannot be listed is never yielded, and a traversal that
\* has ended has yielded every directory reachable through directory entries
\* of listed directories exactly once.
C7_SkipUnlistable ==
    /\ \A k \in 1..Len(yields) : Listable(fsid, yields[k])
    /\ (InScan /\ stack = << >> /\ ~IsBad(ScanBase)) =>
           /\ {Resolve(fsid, yields[k]).d : k \in 1..Len(yields)}
                  = Reachable(fsid, ScanBase)
           /\ Len(yields) = Cardinality(Reachable(fsid, ScanBase))

\* the traversal has ended: the unlistable "/s/sub" was popped first and
\* skipped, and its sibling "/s/t" was yielded after that
C7_Witness ==
    /\ fsid = 3 /\ InScan /\ stack = << >>
    /\ <<"/", "s", "sub">> \in visited
    /\ yields = << <<"/", "s">>, <<"/", "s", "t">> >>

\* C8 as stated: an uncancelled run that ends without an exception reports
\* success iff no task failed, and filesCopied is the number of successes.
C8_UncancelledResult ==
    (BackupDone /\ cancelInfo = << >> /\ Terminal.msg # "failed")
    => /\ Terminal.ok <=> FailedTasks = {}
       /\ Terminal.n = Cardinality(OkTasks)
       /\ Terminal.n + Cardinality(FailedTasks) = Len(plan)

\* C8 amended: the same for a run whose plan is not empty.
C8_UncancelledNonEmpty ==
    (Completed /\ cancelInfo = << >>)
    => /\ Terminal.ok <=> FailedTasks = {}
       /\ Terminal.n = Cardinality(OkTasks)
       /\ Terminal.n + Cardinality(FailedTasks) = Len(plan)

\* a run in which one task succeeded and another failed
C8_Witness ==
    /\ Completed /\ cancelInfo = << >>
    /\ Terminal.n = 1 /\ ~Terminal.ok /\ Cardinality(FailedTasks) >= 1

\* C9: with verify on, a task whose destination differs from its source ends
\* as a "hash mismatch" failure, a kind no I/O failure has; it has its HASH
\* MISMATCH line, no progress event, and no share in the counters.
C9_HashMismatch ==
    (op = "backup" /\ verify_hash) =>
        /\ \A t \in damaged :
              /\ tpc[t] = "done"
              /\ outcome[t] = "hash mismatch"
              /\ outcome[t] # IOErrKind
              /\ \E k \in 1..Len(log) : log[k] = <<"HASH MISMATCH", t>>
              /\ \A i \in ProgIdx : emitted[i].path # <<Basename(plan[t].src)>>
              /\ t \notin CountedTasks
        /\ files_copied = Cardinality(CountedTasks)
        /\ copied_size = SumOver(TaskSize, CountedTasks)
        /\ Cardinality(ProgIdx) = Cardinality(OkTasks)

\* one task ended in a hash mismatch, another was copied and counted
C9_Witness ==
    /\ op = "backup" /\ verify_hash /\ bpc = "done"
    /\ damaged # {} /\ files_copied = 1
    /\ \E t \in damaged : outcome[t] = "hash mismatch"

\* the run ended in the handler of lines 186-188
PermFailed == PermDone /\ Terminal.msg = "failed"

C11_TwiceAsOnce ==
    ( /\ PermDone /\ platform = "posix" /\ runNo = 2
      /\ Terminal.ok /\ firstRun[1].ok )
    => mode = firstRun[1].mode

\* "/s" could be listed and not searched: the first run changed "/s" and its
\* two files and never listed "/s/sub"; the second run changed "/s/sub" too
C11_Witness ==
    /\ PermDone /\ platform = "posix" /\ runNo = 2 /\ fsid = 1
    /\ root_paths = <<<<"/", "s">>>>
    /\ Terminal.ok /\ firstRun[1].ok
    /\ firstRun[1].mode[<<2, "">>] = "777" /\ firstRun[1].mode[<<3, "">>] = "755"
    /\ mode[<<3, "">>] = "777" /\ mode[<<3, "c.log">>] = "666"
    /\ \A k \in 1..Len(log) : log[k][1] # "PERM ERROR (chmod)"

\* canonical paths of the directories the current fast_scan call popped and
\* could not list
Skipped == {r \in visited : \A k \in 1..Len(yields) : Realpath(fsid, yields[k]) # r}
\* path p is r or lies beneath r
Beneath(p, r) == Len(p) >= Len(r) /\ SubSeq(p, 1, Len(r)) = r

\* C12: a run over a tree with a subdirectory that cannot be listed ends in
\* success when it is not cancelled and raises nothing, the log has an error
\* line for that subdirectory, and nothing beneath it is enumerated.
C12_UnlistableLogged ==
    (PermDone /\ ~_cancel /\ ~PermFailed) =>
        /\ Terminal.ok
        /\ \A r \in Skipped :
              /\ \E k \in 1..Len(log) :
                     /\ Len(log[k]) = 2
                     /\ Realpath(fsid, log[k][2]) = r
              /\ \A k \in 1..Len(all_items) :
                     ~Beneath(Norm(Abs(all_items[k])), r)

\* the run ended in success with "/s/sub" popped and not listed, and the log
\* is empty
C12_Witness ==
    /\ PermDone /\ fsid = 3 /\ platform = "posix" /\ runNo = 1
    /\ root_paths = <<<<"/", "s">>>>
    /\ Terminal.ok /\ <<"/", "s", "sub">> \in Skipped
    /\ \A k \in 1..Len(all_items) : ~Beneath(all_items[k], <<"/", "s", "sub">>)
    /\ log = << >>

RECURSIVE DirsBelow(_, _)
\* the directories of the tree: S and what "dir" entries lead to from it
DirsBelow(i, S) ==
    LET T == S \cup {d \in DOMAIN FS(i).ents :
                        \E p \in S : \E k \in 1..Len(FS(i).ents[p]) :
                            /\ FS(i).ents[p][k].kind = "dir"
                            /\ FS(i).ents[p][k].tgt = d}
    IN IF T = S THEN S ELSE DirsBelow(i, T)
\* the keys of the directories and files of the tree under base
TreeKeys(i, base) ==
    LET o == Resolve(i, base)
        ds == IF o.k = "dir" THEN DirsBelow(i, {o.d}) ELSE {}
    IN {key \in Objects(i) : key[1] \in ds}
NoChmodError == \A k \in 1..Len(log) : log[k][1] # "PERM ERROR (chmod)"

\* C13: after a POSIX run that ends in success with no failed mode change,
\* every directory of the trees under the roots is "777" and every file "666".
C13_AllNormalized ==
    (PermDone /\ platform = "posix" /\ Terminal.ok /\ NoChmodError) =>
        \A r \in 1..Len(root_paths) : \A key \in TreeKeys(fsid, root_paths[r]) :
            mode[key] = IF key[2] = "" THEN "777" ELSE "666"

\* the run ended in success; "/s/sub", which cannot be read, and the file in
\* it were never changed
C13_Witness ==
    /\ PermDone /\ platform = "posix" /\ fsid = 3 /\ runNo = 1
    /\ root_paths = <<<<"/", "s">>>> /\ Terminal.ok /\ NoChmodError
    /\ mode[<<2, "">>] = "777" /\ mode[<<4, "B.TXT">>] = "666"
    /\ mode[<<3, "">>] = "000" /\ mode[<<3, "c.log">>] = "644"

\* C16: once planning has ended with an empty plan, the run has ended too:
\* its one signal is the terminal result (0, failure, no files found), and no
\* task was handed to a pool.
C16_EmptyPlan ==
    ( /\ op = "backup" /\ bpc \notin {"start", "plan"} /\ Len(plan) = 0
      /\ ~(bpc = "done" /\ Terminal.msg = "failed") )
    => /\ bpc = "done"
       /\ emitted = <<Finished(0, FALSE, "nofiles")>>
       /\ tpc = << >> /\ outcome = << >>
       /\ files_copied = 0

\* a tree with files was planned with patterns that match none of them
C16_Witness ==
    /\ BackupDone /\ fsid = 1 /\ source_dir = <<"/", "s">> /\ patterns = << >>
    /\ Len(yields) = 2 /\ Len(plan) = 0
    /\ emitted = <<Finished(0, FALSE, "nofiles")>> /\ tpc = << >>

\* C17: every planned task has as src a file under source_dir and as dst
\* destination_root joined with the path of src relative to source_dir; dst
\* lies inside destination_root and differs from src.
C17_TaskPaths ==
    op = "backup" =>
        \A t \in 1..Len(plan) :
            /\ Resolve(fsid, plan[t].src).k = "file"
            /\ Beneath(Norm(Abs(plan[t].src)), Norm(Abs(source_dir)))
            /\ Norm(Abs(plan[t].dst))
                   = Norm(destination_root \o Relpath(plan[t].src, source_dir))
            /\ Beneath(Norm(Abs(plan[t].dst)), destination_root)
            /\ Norm(Abs(plan[t].dst)) # Norm(Abs(plan[t].src))

\* the task planned for "/s/a.txt" has the file itself as destination
C17_Witness ==
    /\ op = "backup" /\ fsid = 1 /\ source_dir = <<"/", "s">> /\ Len(plan) >= 1
    /\ plan[1].src = <<"/", "s", "a.txt">> /\ plan[1].dst = <<"/", "s", "a.txt">>

\* What a run that is not cancelled ends with, for the outcomes o of its tasks:
\* lines 268-269 for the successes, lines 288-289 for the rest.
ReportOf(o) ==
    LET ok == {t \in DOMAIN o : o[t] = "ok"}
    IN [n |-> Cardinality(ok), bytes |-> SumOver(TaskSize, ok),
        errors |-> Cardinality(DOMAIN o \ ok)]
Mismatches(o) == Cardinality({t \in DOMAIN o : o[t] = "hash mismatch"})

\* C18: the final counts of a run that was not cancelled tell how many of its
\* failures were hash mismatches: no other outcomes of the same tasks, with
\* another number of hash mismatches, end in the same counts.
C18_MismatchesTold ==
    (Completed /\ cancelInfo = << >>) =>
        /\ ReportOf(outcome)
              = [n |-> files_copied, bytes |-> copied_size, errors |-> errors]
        /\ Terminal = Finished(files_copied, errors = 0,
                                IF errors = 0 THEN "success" ELSE "summary")
        /\ \A o \in [DOMAIN outcome -> {"ok", "hash mismatch", IOErrKind}] :
               ReportOf(o) = ReportOf(outcome) => Mismatches(o) = Mismatches(outcome)

\* one task ended in a hash mismatch, one in an I/O error, and the run
\* ended with an error count of 2
C18_Witness ==
    /\ Completed /\ cancelInfo = << >> /\ errors = 2
    /\ Mismatches(outcome) = 1
    /\ Cardinality({t \in DOMAIN outcome : outcome[t] = IOErrKind}) = 1
    /\ Terminal.msg = "summary"

\* C19: a run that ends because its plan is empty has created no directory.
C19_EmptyPlanNoWrite ==
    (BackupDone /\ Terminal.msg = "nofiles") => made = {}

\* no file of "/s" matched, and "/d/sub" was created for "/s/sub"
C19_Witness ==
    /\ BackupDone /\ Terminal.msg = "nofiles" /\ fsid = 1
    /\ source_dir = <<"/", "s">> /\ patterns = << >>
    /\ made = {<<"/", "d", "sub">>}

\* C20: once cancel() has been called no fast_scan iteration runs, and a run
\* cancelled while it was planning ends cancelled with no task handed to a pool.
C20_CancelStopsScan ==
    /\ [][(cancelled \/ _cancel) => (visited' \subseteq visited /\ Len(yields') <= Len(yields))]_vars
    /\ []((BackupDone /\ cancelInfo # << >> /\ cancelInfo[1].at = "plan"
             /\ Terminal.msg # "failed")
            => (Terminal.msg = "cancelled" /\ tpc = << >>))

\* cancel() came before "/s" was listed; both directories were listed after
\* it, the three tasks went to the pool and each came back cancelled
C20_Witness ==
    /\ BackupDone /\ fsid = 1 /\ source_dir = <<"/", "s">>
    /\ cancelInfo # << >> /\ cancelInfo[1].at = "plan"
    /\ Len(yields) = 2 /\ Len(plan) = 3
    /\ \A t \in DOMAIN outcome : outcome[t] = "cancelled"
    /\ Terminal.msg = "cancelled"

DedupeDone == op = "dedupe" /\ dpc = "done"
Members(paths) == {paths[k] : k \in 1..Len(paths)}
DigestOf(fp) == Md5(Content(fsid, fp))

\* C14: every group find_duplicates returns has two or more members; each
\* member is a file this call hashed, with the digest that is the group's key;
\* no path is twice in a group or in two groups.
C14_GroupsSound ==
    DedupeDone =>
        /\ \A h \in DOMAIN result :
              /\ Len(result[h]) >= 2
              /\ Cardinality(Members(result[h])) = Len(result[h])
              /\ \A fp \in Members(result[h]) :
                    /\ Resolve(fsid, fp).k = "file"
                    /\ fp \in DOMAIN hashed
                    /\ hashed[fp] = [ok |-> TRUE, digest |-> h]
                    /\ DigestOf(fp) = h
        /\ \A h \in DOMAIN result : \A g \in DOMAIN result \ {h} :
              Members(result[h]) \cap Members(result[g]) = {}

\* the call returned a group of three files and a group of two
C14_Witness ==
    /\ DedupeDone /\ fsid = DupFS /\ directory = <<"/", "s">>
    /\ Cardinality(DOMAIN result) = 2
    /\ \E h \in DOMAIN result : Len(result[h]) = 3
    /\ \E h \in DOMAIN result : Len(result[h]) = 2

\* the files of the directories reachable from directory, as (directory, name)
FoundFiles ==
    {<<d, FS(fsid).ents[d][k].name>> : <<d, k>> \in
        {dk \in Reachable(fsid, directory) \X (1..4) :
            /\ dk[2] <= Len(FS(fsid).ents[dk[1]])
            /\ FS(fsid).ents[dk[1]][dk[2]].kind = "file"}}
\* the name has one of the extensions (whatever its case) and the size is
\* min_size or more
Eligible(name, size) ==
    /\ \/ file_extensions = << >>
       \/ \E k \in 1..Len(file_extensions) :
             EndsWith(Lower(Chars(name)), Chars(file_extensions[k]))
    /\ size >= min_size
\* the paths of the eligible files that hashed without error
Candidates ==
    {fp \in DOMAIN hashed :
        /\ hashed[fp].ok
        /\ Eligible(Basename(fp), GetSize(fsid, fp))}

\* C15: every eligible file of the tree was handed to chunked_file_hash; a
\* digest that two or more of those that hashed share has a group holding
\* exactly their paths, and a digest of only one of them has no group.
C15_GroupsExact ==
    DedupeDone =>
        /\ \A f \in FoundFiles :
              Eligible(f[2], Lookup(fsid, f[1], f[2]).size)
              => \E fp \in DOMAIN hashed : ModeKey(Resolve(fsid, fp)) = f
        /\ \A h \in {DigestOf(fp) : fp \in Candidates} \cup DOMAIN result :
              \E same \in {{fp \in Candidates : DigestOf(fp) = h}} :
                 IF Cardinality(same) >= 2
                 THEN /\ h \in DOMAIN result
                      /\ Members(result[h]) = same
                      /\ Len(result[h]) = Cardinality(same)
                 ELSE h \notin DOMAIN result

\* of the three ".txt" files of one content one could not be hashed; the
\* other two make the only group, the ".log" files being filtered out
C15_Witness ==
    /\ DedupeDone /\ fsid = DupFS /\ file_extensions = <<".txt">> /\ min_size = 0
    /\ \E fp \in DOMAIN hashed : ~hashed[fp].ok
    /\ Cardinality(DOMAIN result) = 1
    /\ \A h \in DOMAIN result : Len(result[h]) = 2
    /\ Cardinality(DOMAIN hashed) = 3

\* C21: a task that finds self.cancelled set when it starts ends as
\* "cancelled" with nothing written, counted, emitted or logged; "cancelled" is
\* the outcome of no other task; a task that started goes through the locked
\* count and the progress event whatever the flag has become.
C21_CancelAtTaskStart ==
    [][\A t \in DOMAIN tpc :
          /\ (tpc[t] = "queued" /\ tpc'[t] # "queued") =>
                IF cancelled
                THEN /\ outcome'[t] = "cancelled" /\ tpc'[t] = "done"
                     /\ UNCHANGED <<made, damaged, files_copied, copied_size, emitted, log>>
                ELSE tpc'[t] = "copy" /\ outcome'[t] = "none"
          /\ (outcome'[t] = "cancelled" /\ outcome[t] # "cancelled") =>
                (tpc[t] = "queued" /\ cancelled)
          /\ (tpc[t] = "copy" /\ tpc'[t] # "copy") =>
                \/ tpc'[t] = "lock"
                \/ tpc'[t] = "done" /\ outcome'[t] \in {"hash mismatch", IOErrKind}
          /\ (tpc[t] = "lock" /\ tpc'[t] # "lock") =>
                /\ tpc'[t] = "emit"
                /\ files_copied' = files_copied + 1
                /\ copied_size' = copied_size + plan[t].fsize
          /\ (tpc[t] = "emit" /\ tpc'[t] # "emit") =>
                /\ tpc'[t] = "done" /\ outcome'[t] = "ok"
                /\ Len(emitted') = Len(emitted) + 1
                /\ emitted'[Len(emitted')].sig = "progress"
      ]_vars

\* cancel() came while the pool was running; a task that had started ended
\* "ok" after it, and a task that started later ended "cancelled"
C21_Witness ==
    /\ BackupDone /\ cancelInfo # << >> /\ cancelInfo[1].at = "collect"
    /\ Cardinality(OkTasks) > cancelInfo[1].k
    /\ \E t \in DOMAIN outcome : outcome[t] = "cancelled"
    /\ files_copied = Cardinality(OkTasks)

\* C22: when a run has emitted the cancelled result no task is still running,
\* and the count it carries is files_copied, the number of tasks that ended
\* "ok", those that ended after cancel() included.
C22_CancelledCount ==
    (BackupDone /\ Terminal.msg = "cancelled") =>
        /\ tpc # << >>
        /\ \A t \in DOMAIN tpc : tpc[t] = "done"
        /\ Terminal.n = Cardinality(OkTasks)
        /\ Terminal.n = files_copied
        /\ Terminal.n >= cancelInfo[1].k

\* two tasks ended "ok" after cancel() and are in the count of the result
C22_Witness ==
    /\ BackupDone /\ Terminal.msg = "cancelled"
    /\ cancelInfo[1].at = "collect" /\ cancelInfo[1].k = 0
    /\ Terminal.n = 2 /\ Cardinality(OkTasks) = 2

\* C23: files_copied is the number of tasks that have been through the lock
\* block and copied_size the sum of their planned sizes, within the size of the
\* plan and total_size; the progress events carry distinct counts of
\* 1..files_copied, all of them once every task has ended, and the byte count
\* of the event with count n is that of the event with count n - 1 plus the
\* size of its own file.
C23_CountersConsistent ==
    op = "backup" =>
        /\ files_copied = Cardinality(CountedTasks)
        /\ copied_size = SumOver(TaskSize, CountedTasks)
        /\ files_copied <= Len(plan)
        /\ bpc \notin {"start", "plan"} => copied_size <= total_size
        /\ \A i \in ProgIdx :
              /\ emitted[i].n \in 1..files_copied
              /\ \A j \in ProgIdx : emitted[j].n = emitted[i].n => j = i
              /\ emitted[i].n = 1 => emitted[i].total = emitted[i].size
              /\ \A j \in ProgIdx :
                    emitted[j].n = emitted[i].n + 1
                    => emitted[j].total = emitted[i].total + emitted[j].size
        /\ (tpc # << >> /\ \A t \in DOMAIN tpc : tpc[t] = "done")
              => {emitted[i].n : i \in ProgIdx} = 1..files_copied

\* two tasks on two workers have been counted and have emitted, the event
\* with count 2 before the event with count 1, and a third task has failed
C23_Witness ==
    /\ BackupDone /\ files_copied = 2 /\ max_workers = 2 /\ Len(plan) = 3
    /\ Cardinality(ProgIdx) = 2 /\ copied_size = 3
    /\ \E i, j \in ProgIdx : i < j /\ emitted[i].n = 2 /\ emitted[j].n = 1

Outcomes == {"ok", "cancelled", "hash mismatch", IOErrKind}

\* C24: once the tasks are with the pool, each call of copy_one ends with one
\* of the four outcomes, which stays as it is; no exception reaches the
\* handler of run, and a run that has ended has an outcome for each task of
\* its plan.
C24_OutcomePerTask ==
    /\ []((op = "backup" /\ tpc # << >>) =>
            /\ DOMAIN outcome = Tasks
            /\ \A t \in Tasks : IF tpc[t] = "done" THEN outcome[t] \in Outcomes
                                                   ELSE outcome[t] = "none"
            /\ \A k \in 1..Len(emitted) : emitted[k].msg # "failed"
            /\ bpc = "done" => \A t \in Tasks : outcome[t] \in Outcomes)
    /\ [][\A t \in DOMAIN outcome : outcome[t] # "none" => outcome'[t] = outcome[t]]_vars

\* a run whose three tasks ended in an I/O error, a hash mismatch and "ok"
C24_Witness ==
    /\ BackupDone /\ Len(plan) = 3
    /\ {outcome[t] : t \in DOMAIN outcome} = {"ok", "hash mismatch", IOErrKind}
    /\ Terminal.msg = "summary"

\* the next step of the run raises: realpath on the popped path (line 86), or
\* ThreadPoolExecutor on a worker count below 1 (line 282)
Raising ==
    \/ /\ op = "backup" /\ bpc = "plan" /\ stack # << >> /\ IsBad(ScanPath)
    \/ /\ op = "backup" /\ bpc = "pool" /\ max_workers <= 0
    \/ /\ op = "perm" /\ ppc = "enum" /\ stack # << >> /\ IsBad(ScanPath)

\* C25: the step of a run that raises ends the run with a FATAL line in the
\* log and a terminal result of failure, and a run that has ended has emitted
\* a terminal result as its last signal.
C25_FatalIsTerminal ==
    /\ [][(Raising /\ cancelled' = cancelled /\ _cancel' = _cancel) =>
            /\ Done'
            /\ emitted' = Append(emitted, emitted'[Len(emitted')])
            /\ emitted'[Len(emitted')].sig = "finished"
            /\ ~emitted'[Len(emitted')].ok
            /\ emitted'[Len(emitted')].msg = "failed"
            /\ Len(log') = Len(log) + 1
            /\ log'[Len(log')][1] \in {"FATAL", "PERM FATAL"}]_vars
    /\ [](Done => (emitted # << >> /\ Terminal.sig = "finished"))

\* the plan was built and the pool could not be created
C25_Witness ==
    /\ BackupDone /\ max_workers <= 0 /\ Len(plan) > 0
    /\ Terminal = Finished(0, FALSE, "failed")
    /\ log[Len(log)] = <<"FATAL">>

\* the file a path of a task names: the canonical path of what it resolves
\* to, or the path made absolute and normalised when it names nothing yet
DstKey(p) ==
    LET o == Resolve(fsid, p)
    IN IF o.k = "file" THEN FS(fsid).canon[o.d] \o <<o.n>> ELSE Realpath(fsid, p)

\* C26: no two tasks of a plan have the same dst, as a path or as the file
\* the path names.
C26_DistinctDst ==
    op = "backup" =>
        \A t \in 1..Len(plan) : \A u \in 1..Len(plan) :
            (plan[t].dst = plan[u].dst \/ DstKey(plan[t].dst) = DstKey(plan[u].dst))
            => t = u

\* two tasks of a plan of three are being copied at once
C26_Witness ==
    /\ op = "backup" /\ Len(plan) = 3 /\ max_workers = 2
    /\ Cardinality({t \in DOMAIN tpc : tpc[t] = "copy"}) = 2
    /\ Cardinality({plan[t].dst : t \in 1..Len(plan)}) = 3

\* the enumerated items that name a file of another owner
ForeignItems ==
    {k \in 1..Len(all_items) :
        ModeKey(Resolve(fsid, all_items[k])) \in FS(fsid).foreign}
ChmodErrors == {k \in 1..Len(log) : log[k][1] = "PERM ERROR (chmod)"}

\* C27: on POSIX os.chmod is called on the items in enumeration order, one
\* call for each item gone through; a call that fails leaves one line in the
\* log, and the run goes on: a run that is not cancelled and whose
\* enumeration did not raise has called os.chmod on every item and ends with
\* success.
C27_ItemFailuresLogged ==
    (op = "perm" /\ platform = "posix" /\ ppc \in {"items", "done"} /\ ~PermFailed) =>
        /\ Len(chmods) = processed
        /\ \A k \in 1..processed : chmods[k].path = all_items[k]
        /\ Cardinality(ChmodErrors) = Cardinality({k \in ForeignItems : k <= processed})
        /\ \A k \in ForeignItems :
              k <= processed => \E j \in ChmodErrors : log[j][2] = all_items[k]
        /\ (ppc = "done" /\ Terminal.msg # "cancelled") =>
              (Terminal.ok /\ processed = Len(all_items))

\* os.chmod failed on "/s/sub/c.log"; the run went on to the end and succeeded
C27_Witness ==
    /\ PermDone /\ platform = "posix" /\ fsid = 2 /\ root_paths = <<<<"/", "s">>>>
    /\ Terminal.ok /\ ~_cancel
    /\ Len(all_items) = 4 /\ processed = 4 /\ ForeignItems = {4}
    /\ Cardinality(ChmodErrors) = 1

\* C28: the k-th signal of a PermissionUpdateWorker run is, as long as it is
\* a progress event, the event (k, len(all_items), all_items[k]); nothing
\* follows the terminal result, and a run that ends with success has emitted
\* one progress event for each item.
C28_ProgressCounts ==
    op = "perm" =>
        /\ \A k \in ProgIdx :
              /\ emitted[k].n = k
              /\ emitted[k].total = Len(all_items)
              /\ emitted[k].n <= emitted[k].total
              /\ emitted[k].path = all_items[k]
        /\ \A k \in FinIdx : k = Len(emitted)
        /\ Cardinality(ProgIdx) = processed
        /\ (PermDone /\ Terminal.ok) => Cardinality(ProgIdx) = Len(all_items)

\* a run over two roots, the second inside the first, ended with success
\* after seven progress events
C28_Witness ==
    /\ PermDone /\ Terminal.ok /\ Len(root_paths) = 2 /\ fsid = 1
    /\ Len(all_items) = 7 /\ Cardinality(ProgIdx) = 7 /\ Len(emitted) = 8
    /\ emitted[7].n = 7 /\ emitted[7].total = 7

\* the log has the error line of a grant on base
GrantErrorLogged(base) ==
    \E j \in 1..Len(log) : log[j] = <<"PERM ERROR (icacls)", base>>

\* C29: on Windows a run that is not cancelled and whose enumeration did not
\* raise has made one grant for each root, in order, and no other call; each
\* grant that failed has its error line in the log; the run has emitted one
\* progress event for each item and ends with success.
C29_GrantPerRoot ==
    (PermDone /\ platform = "win" /\ ~PermFailed /\ Terminal.msg # "cancelled") =>
        /\ Len(chmods) = Len(root_paths)
        /\ \A k \in 1..Len(chmods) :
              /\ chmods[k].mode = "grant" /\ chmods[k].path = root_paths[k]
              /\ chmods[k].res # "ok" => GrantErrorLogged(chmods[k].path)
        /\ Cardinality(ProgIdx) = Len(all_items)
        /\ mode = InitMode(fsid, "asis") \/ mode = InitMode(fsid, "r--")
        /\ Terminal.ok

\* icacls ended with an error for the root "/x", which names nothing; the log
\* has the ROOT-GRANT line for it and no error line
C29_Witness ==
    /\ PermDone /\ platform = "win" /\ root_paths = <<<<"/", "x">>>> /\ Terminal.ok
    /\ Len(chmods) = 1 /\ chmods[1].res = "exit"
    /\ log = <<<<"PERM WINDOWS ROOT-GRANT", <<"/", "x">>>>>>

\* name ends, whatever its case, with one of the patterns less its leading
\* "*" characters, or "*" is one of the patterns
NameMatches(name, pats) ==
    \E k \in 1..Len(pats) :
        \/ pats[k] = "*"
        \/ \E suffix \in {Lower(LStrip(Chars(pats[k])))} :
              \E str \in {Lower(Chars(name))} :
                 /\ Len(suffix) <= Len(str)
                 /\ \A j \in 1..Len(suffix) : str[Len(str) - Len(suffix) + j] = suffix[j]
\* the entries of the files lists of the directories yielded so far, each
\* with the directory it was yielded with
YieldedFiles ==
    {<<yields[k], ScanFiles(fsid, yields[k])[j]>> :
        <<k, j>> \in {kj \in (1..Len(yields)) \X (1..4) :
                        kj[2] <= Len(ScanFiles(fsid, yields[kj[1]]))}}

\* C30: the plan has one task for each entry of the files lists whose name
\* matches the patterns, and no other; with no patterns it is empty.
C30_PlanIffMatch ==
    (op = "backup" /\ bpc # "start") =>
        /\ {plan[t].src : t \in 1..Len(plan)}
              = {Join(f[1], f[2]) : f \in {g \in YieldedFiles :
                                             NameMatches(Basename(g[2]), patterns)}}
        /\ Len(plan) = Cardinality({g \in YieldedFiles :
                                       NameMatches(Basename(g[2]), patterns)})
        /\ patterns = << >> => plan = << >>

\* of the files a.txt, B.TXT and sub/c.log the pattern "*.txt" took the first two
C30_Witness ==
    /\ op = "backup" /\ fsid = 1 /\ patterns = <<"*.txt">> /\ bpc = "pool"
    /\ Len(yields) = 2 /\ Len(plan) = 2
    /\ Basename(plan[1].src) = "a.txt" /\ Basename(plan[2].src) = "B.TXT"

\* C31: a run whose cancel() came before run() started makes no call that
\* changes permissions and leaves every mode as it was.
C31_CancelBeforeStart ==
    [](( /\ op = "perm" /\ runNo = 1 /\ ppc = "start" /\ _cancel )
       => [](runNo = 1 =>
               /\ chmods = << >>
               /\ \E sel \in ModeInits : mode = InitMode(fsid, sel)))

\* cancelled before its first item, the run on Windows has made the grant on
\* its root and has ended as cancelled
C31_Witness ==
    /\ PermDone /\ platform = "win" /\ runNo = 1 /\ fsid = 1
    /\ root_paths = <<<<"/", "s">>>>
    /\ seenCancel = 0 /\ processed = 0 /\ Terminal.msg = "cancelled"
    /\ Len(chmods) = 1 /\ chmods[1].mode = "grant" /\ chmods[1].res = "ok"

\* C32: a per-item run changes the mode of nothing outside the trees of its
\* roots, whatever symlinks those trees hold.
C32_OnlyInsideRoots ==
    (op = "perm" /\ platform = "posix" /\ runNo = 1)
        => \E sel \in ModeInits :
              \A key \in Objects(fsid) \ UNION {TreeKeys(fsid, root_paths[r]) :
                                                    r \in 1..Len(root_paths)} :
                  mode[key] = InitMode(fsid, sel)[key]

\* the run over "/s" has ended after a successful chmod of the symlink "/s/l"
C32_Witness ==
    /\ PermDone /\ platform = "posix" /\ runNo = 1 /\ fsid = 5
    /\ root_paths = <<<<"/", "s">>>> /\ ~_cancel
    /\ \E k \in 1..Len(chmods) :
          chmods[k].path = <<"/", "s", "l">> /\ chmods[k].mode = ModeFor(TRUE)
    /\ mode[<<9, "">>] = ModeFor(TRUE)
    /\ NoChmodError

\* C33: every group find_duplicates returns starts with the path that was seen
\* first with that digest (hashes holds it), the one paths[1:] leaves in place.
C33_FirstSeenFirst ==
    (op = "dedupe" /\ dpc = "done")
        => \A h \in DOMAIN result : result[h][1] = hashes[h]

\* the call over "/s" returned the group of the three files of equal content:
\* the file seen second leads it and the file seen first is its second element
C33_Witness ==
    /\ op = "dedupe" /\ dpc = "done" /\ fsid = DupFS
    /\ directory = <<"/", "s">> /\ min_size = 0 /\ file_extensions = << >>
    /\ \E h \in DOMAIN result :
          /\ hashes[h] = <<"/", "s", "a.txt">>
          /\ result[h] = << <<"/", "s", "B.TXT">>, <<"/", "s", "a.txt">>,
                            <<"/", "s", "sub", "c.txt">> >>

\* the starts and terminal results of backup workers in history, in order
BackupEvents == SelectSeq(history, LAMBDA e : e.ev \in {"backup_start", "backup_result"})
BackupStarts == SelectSeq(history, LAMBDA e : e.ev = "backup_start")
\* the main thread has taken every finished signal emitted so far
Delivered == inbox = << >>

====
